---- MODULE Spec2Model ----
(***************************************************************************)
(* Model of the subscription fan-out layer of clacks:                      *)
(*   - the ConnectionTracker actor (src/ws_actors/mod.rs), its two indices *)
(*     and its four message handlers,                                      *)
(*   - the WsHandler actor, one per websocket connection,                  *)
(*   - the createMessage mutation resolver (src/resolvers.rs), which       *)
(*     persists a message and notifies the tracker,                        *)
(*   - the channel_members and messages tables of the data store           *)
(*     (src/models.rs).                                                    *)
(* Actors talk by fire-and-forget messages (do_send) into FIFO mailboxes.  *)
(***************************************************************************)
EXTENDS Integers, Sequences, FiniteSets, TLC

\* ---------------------------------------------------------------- bounds
MaxFrames == 3        \* websocket frames / transport events the clients produce
MaxMessages == 1      \* createMessage mutations executed
MaxMemberOps == 1     \* membership changes made in the data store

Users == {"A", "B"}
Chans == {7, 8}
SubIds == {"1", "2"}
Conns == {1, 2}
Contents == {"hi", "yo"}
\* a start frame carries a GraphQL document: "sub" is a well-formed
\* subscription { message { id content } }, "bad" a document that fails to
\* resolve
Reqs == {"sub", "bad"}
\* "mut" is the well-formed mutation
\* mutation { createMessage(input: {content: "hi", channel: 7}) { __typename } }
MutationReqs == {"sub", "mut"}
None == "None"

\* ----------------------------------------------------------------- state
VARIABLES
  channel_members,   \* store: rows of the channel_members table, in row order
  messages,          \* store: rows of the messages table, id = auto increment
  connections,       \* ConnectionTracker.connections
  subscriptions,     \* ConnectionTracker.subscriptions (primary map)
  channels,          \* ConnectionTracker.channels (channel -> bucket)
  tracker_mailbox,   \* mailbox of the ConnectionTracker actor
  tracker_panicked,  \* a handler of the tracker panicked: the process is gone
  conn_id,           \* WsHandler.conn_id, per connection
  ws_stopped,        \* per connection: the WsHandler actor has stopped
  ws_panicked,       \* per connection: the WsHandler panicked in a handler
  ws_mailbox,        \* per connection: MsgSubscriptionData not yet handled
  ws_written,        \* per connection: the frames its latest handler run wrote
  ws_data,           \* per connection: the data frames written so far, in order
  ws_closed,         \* per connection: ctx.close() has written a close frame
  ws_last,           \* history: the input of the latest WsHandler handler run
  last,              \* history: the message the tracker handled last, and
                     \* the MsgSubscriptionData it sent while handling it
  retired,           \* history: instances stopped/disconnected and not
                     \* registered again since
  arrived,           \* history: the events sent to the tracker, in arrival order
  nframes,           \* history: frames consumed so far
  nmemberops,        \* history: membership changes so far
  budget,            \* the bounds of the run: frames, messages, memberops,
                     \* and the documents (docs) the clients send
  eng_req,           \* GqlSchema::resolve: the prepared operations and the root
  eng_env,           \* what the resolvers and the build do (fixed during a run)
  eng_pc,            \* where resolve stands
  eng_op,            \* the number of operations of the request started so far
  eng_stack,         \* resolve_loop_next: the stack of ResolutionContext
  eng_res,           \* the map resolve_loop_next returned for the operation
  eng_data,          \* resolve: the JSON map built so far
  eng_err,           \* resolve: <<>>, or <<e>> for the Err(e) it returned
  eng_calls,         \* history: the resolvers invoked so far, in order
  prep_req,          \* GqlRequest: the parsed document and the variables
  variables,         \* GqlRunningQuery.variables
  starting_type,     \* GqlRunningQuery.starting_type
  queries,           \* resolve: what get_initial_items returned
  checks,            \* history: the calls of naive_check_var_type so far
  fragments,         \* GqlRunningQuery.fragments
  conv_in,           \* the JSON number handed to json_to_gql
  conv_pc,           \* where the conversion there and back stands
  conv_gql,          \* what json_to_gql returned
  conv_out,          \* what gql_to_json returned for it
  external_types     \* GqlSchema.external_types: the catalogs of the schema

vars == <<channel_members, messages, connections, subscriptions, channels,
          tracker_mailbox, tracker_panicked, conn_id, ws_stopped, ws_panicked,
          ws_mailbox, ws_written, ws_data, ws_closed, ws_last, last, retired,
          arrived, nframes, nmemberops, budget,
          eng_req, eng_env, eng_pc, eng_op, eng_stack, eng_res, eng_data,
          eng_err, eng_calls, prep_req, variables, starting_type, queries, checks,
          fragments, conv_in, conv_pc, conv_gql, conv_out, external_types>>

storeVars == <<channel_members, messages>>
trackerVars == <<connections, subscriptions, channels>>
wsVars == <<conn_id, ws_stopped, ws_panicked, ws_mailbox, ws_written, ws_data,
            ws_closed, ws_last>>
engineVars == <<eng_req, eng_env, eng_pc, eng_op, eng_stack, eng_res, eng_data,
                eng_err, eng_calls>>
prepVars == <<prep_req, variables, starting_type, queries, checks, fragments>>
convVars == <<conv_in, conv_pc, conv_gql, conv_out>>
\* what no handler of the fan-out layer touches
fixedVars == <<budget, engineVars, prepVars, convVars, external_types>>

\* ------------------------------------------------------------ data types
SubscriptionInstance(user, id) == [user |-> user, id |-> id]

Instances == [user : Users, id : SubIds]

ActiveSubscription(chans, addr, req) ==
  [channels |-> chans, addr |-> addr, req |-> req]

MsgNewSubscription(user_id, sub_id, sub, addr) ==
  [type |-> "MsgNewSubscription", user_id |-> user_id, sub_id |-> sub_id,
   sub |-> sub, addr |-> addr]

MsgWsDisconnected(id) == [type |-> "MsgWsDisconnected", id |-> id]

MsgSubscriptionStop(sub_id, user_id) ==
  [type |-> "MsgSubscriptionStop", sub_id |-> sub_id, user_id |-> user_id]

MsgMessageCreated(channel, content, sender, msg_id) ==
  [type |-> "MsgMessageCreated", channel |-> channel, content |-> content,
   sender |-> sender, msg_id |-> msg_id]

\* MsgSubscriptionData::new: Ok(data) -> no errors, Some(data);
\* Err(e) -> one error, no data
MsgSubscriptionData(id, result) ==
  IF result.ok
  THEN [type |-> "MsgSubscriptionData", errors |-> 0, has_data |-> TRUE,
        data |-> result.data, id |-> id]
  ELSE [type |-> "MsgSubscriptionData", errors |-> 1, has_data |-> FALSE,
        data |-> <<>>, id |-> id]

\* ------------------------------------------------------------- the store
\* get_users_channels: the channel_id of every row of the user, in row order
RECURSIVE get_users_channels(_, _)
get_users_channels(rows, user) ==
  IF rows = <<>> THEN <<>>
  ELSE IF Head(rows).user = user
       THEN <<Head(rows).channel_id>> \o get_users_channels(Tail(rows), user)
       ELSE get_users_channels(Tail(rows), user)

\* create_message: insert a row, return the row with the highest id
create_message(rows, sender, channel_id, content) ==
  Append(rows, [id |-> Len(rows) + 1, sender |-> sender,
                channel_id |-> channel_id, content |-> content])

\* ------------------------------------------- ConnectionTracker: helpers
\* Vec::swap_remove(i), i zero-based: the last element takes the place of
\* element i and the vector shrinks by one
swap_remove(vec, i) ==
  IF i + 1 = Len(vec) THEN SubSeq(vec, 1, Len(vec) - 1)
  ELSE SubSeq([vec EXCEPT ![i + 1] = vec[Len(vec)]], 1, Len(vec) - 1)

\* the inner loop of remove_sub: for i in 0..chsub.len(), the range being
\* fixed before the first removal. chsub[i] panics once i is past the end of
\* the shrunken vector.
RECURSIVE scan_bucket(_, _, _, _)
scan_bucket(chsub, instance, i, n) ==
  IF i >= n THEN [vec |-> chsub, panic |-> FALSE]
  ELSE IF i >= Len(chsub) THEN [vec |-> chsub, panic |-> TRUE]
  ELSE IF chsub[i + 1] = instance
       THEN scan_bucket(swap_remove(chsub, i), instance, i + 1, n)
       ELSE scan_bucket(chsub, instance, i + 1, n)

\* the outer loop of remove_sub over the channels of the record;
\* self.channels.get_mut(channel).unwrap() panics on a missing bucket
RECURSIVE remove_from_channels(_, _, _)
remove_from_channels(chs, list, instance) ==
  IF list = <<>> THEN [channels |-> chs, panic |-> FALSE]
  ELSE IF Head(list) \notin DOMAIN chs THEN [channels |-> chs, panic |-> TRUE]
  ELSE LET r == scan_bucket(chs[Head(list)], instance, 0, Len(chs[Head(list)]))
           chs1 == [chs EXCEPT ![Head(list)] = r.vec]
       IN IF r.panic THEN [channels |-> chs1, panic |-> TRUE]
          ELSE remove_from_channels(chs1, Tail(list), instance)

\* remove_sub with the lookup in the primary map unwrapped: an instance that
\* is not registered panics
remove_sub_unwrap(subs, chs, user, sub_id) ==
  LET instance == SubscriptionInstance(user, sub_id)
  IN IF instance \in DOMAIN subs
     THEN LET r == remove_from_channels(chs, subs[instance].channels, instance)
          IN [subscriptions |-> subs, channels |-> r.channels, panic |-> r.panic]
     ELSE [subscriptions |-> subs, channels |-> chs, panic |-> TRUE]

\* ConnectionTracker::remove_sub: the state (primary map, buckets) after the
\* call, and whether it panicked on the way
remove_sub(subs, chs, user, sub_id) ==
  LET instance == SubscriptionInstance(user, sub_id)
  IN IF instance \in DOMAIN subs
     THEN LET r == remove_from_channels(chs, subs[instance].channels, instance)
          IN [subscriptions |-> subs, channels |-> r.channels, panic |-> r.panic]
     ELSE [subscriptions |-> subs, channels |-> chs, panic |-> FALSE]

\* ConnectionTracker::remove_user: ids is the list collected from the keys
\* of the primary map (in the map's iteration order); remove_sub on each
RECURSIVE remove_user(_, _, _, _)
remove_user(subs, chs, user, ids) ==
  IF ids = <<>> THEN [subscriptions |-> subs, channels |-> chs, panic |-> FALSE]
  ELSE LET r == remove_sub(subs, chs, user, Head(ids))
       IN IF r.panic THEN r
          ELSE remove_user(r.subscriptions, r.channels, user, Tail(ids))

\* the ids remove_user collects for a user
user_ids(subs, user) == {k.id : k \in {x \in DOMAIN subs : x.user = user}}

\* every order in which a HashMap may iterate over a set of keys
Orders(S) ==
  {f \in [1..Cardinality(S) -> S] : \A i, j \in 1..Cardinality(S) : f[i] = f[j] => i = j}

\* insert_subscription with the insert into the primary map left out
insert_subscription_missing(subs, instance, rec) == subs

\* HashMap::insert on the primary map: a present key gets the new record
insert_subscription(subs, instance, rec) ==
  [k \in DOMAIN subs \cup {instance} |-> IF k = instance THEN rec ELSE subs[k]]

\* the match in Handler<MsgNewSubscription>: push on the bucket, creating it
push_instance(chs, channel, instance) ==
  IF channel \in DOMAIN chs
  THEN [chs EXCEPT ![channel] = Append(@, instance)]
  ELSE [c \in DOMAIN chs \cup {channel} |->
          IF c = channel THEN <<instance>> ELSE chs[c]]

\* for channel in channels { ... } of Handler<MsgNewSubscription>
RECURSIVE push_all(_, _, _)
push_all(chs, list, instance) ==
  IF list = <<>> THEN chs
  ELSE push_all(push_instance(chs, Head(list), instance), Tail(list), instance)

\* format!("{}", msg_id) of an i32
format_i32(n) == ToString(n)

\* the root Deliver seeds the engine with
event_root(msg) == [id |-> format_i32(msg.msg_id), content |-> msg.content]

\* schema.resolve(context, req, Some(root)) for the documents of Reqs and
\* MutationReqs: the Subscription.message resolver (subscription_message)
\* copies id and content of the root into the seed of Message, whose fields
\* are then already present; Mutation.createMessage is not a key of the root,
\* so mutation_create_message is called (with a store that answers), and
\* __typename of what it returns is Message
resolve(req, root) ==
  IF req = "sub"
  THEN [ok |-> TRUE, data |-> [message |-> [id |-> root.id, content |-> root.content]]]
  ELSE IF req = "mut"
  THEN [ok |-> TRUE, data |-> [createMessage |-> [__typename |-> "Message"]]]
  ELSE [ok |-> FALSE, data |-> <<>>]

\* the arguments of createMessage in "mut"
mut_input == [content |-> "hi", channel |-> 7]

\* what the resolver calls made while the documents of sends were resolved
\* did besides returning: mutation_create_message, run with the context of
\* the instance (cur_user = sub.user, ws_addr = ctx.address()), inserts a row
\* and sends MsgMessageCreated to the tracker; subscription_message does
\* neither
RECURSIVE resolver_effects(_, _, _)
resolver_effects(subs, sends, acc) ==
  IF sends = <<>> THEN acc
  ELSE LET sub == Head(sends).inst
       IN IF subs[sub].req = "mut"
          THEN resolver_effects(subs, Tail(sends),
                 [rows |-> create_message(acc.rows, sub.user, mut_input.channel,
                                          mut_input.content),
                  events |-> Append(acc.events,
                               MsgMessageCreated(mut_input.channel, mut_input.content,
                                                 sub.user, 100))])
          ELSE resolver_effects(subs, Tail(sends), acc)

\* should_send without the comparison with the sender
should_send_everyone(sub, msg) == TRUE

\* "No need to tell a user about the message they just sent"
should_send(sub, msg) == sub.user # msg.sender

\* deliver_loop that returns at the first document that fails to resolve
RECURSIVE deliver_loop_abort(_, _, _, _)
deliver_loop_abort(subs, bucket, msg, acc) ==
  IF bucket = <<>> THEN [sends |-> acc, panic |-> FALSE]
  ELSE LET sub == Head(bucket)
       IN IF sub.user # msg.sender
          THEN IF sub \notin DOMAIN subs THEN [sends |-> acc, panic |-> TRUE]
               ELSE LET res == resolve(subs[sub].req, event_root(msg))
                        acc1 == Append(acc, [inst |-> sub, addr |-> subs[sub].addr,
                                             data |-> MsgSubscriptionData(sub.id, res)])
                    IN IF res.ok
                       THEN deliver_loop_abort(subs, Tail(bucket), msg, acc1)
                       ELSE [sends |-> acc1, panic |-> FALSE]
          ELSE deliver_loop_abort(subs, Tail(bucket), msg, acc)

\* the loop of Handler<MsgMessageCreated> over the bucket: the do_send calls
\* made, in order, and whether self.subscriptions.get(sub).unwrap() panicked
RECURSIVE deliver_loop(_, _, _, _)
deliver_loop(subs, bucket, msg, acc) ==
  IF bucket = <<>> THEN [sends |-> acc, panic |-> FALSE]
  ELSE LET sub == Head(bucket)
       IN IF should_send(sub, msg)
          THEN IF sub \notin DOMAIN subs THEN [sends |-> acc, panic |-> TRUE]
               ELSE deliver_loop(subs, Tail(bucket), msg,
                      Append(acc, [inst |-> sub, addr |-> subs[sub].addr,
                                   data |-> MsgSubscriptionData(sub.id,
                                              resolve(subs[sub].req, event_root(msg)))]))
          ELSE deliver_loop(subs, Tail(bucket), msg, acc)

\* post_all over mailboxes that hand out the newest message first
RECURSIVE post_all_front(_, _, _)
post_all_front(boxes, stopped, sends) ==
  IF sends = <<>> THEN boxes
  ELSE LET s == Head(sends)
       IN post_all_front(IF stopped[s.addr] THEN boxes
                         ELSE [boxes EXCEPT ![s.addr] = <<s.data>> \o @],
                         stopped, Tail(sends))

\* do_send to WsHandler addresses: a stopped actor drops what it is sent
RECURSIVE post_all(_, _, _)
post_all(boxes, stopped, sends) ==
  IF sends = <<>> THEN boxes
  ELSE LET s == Head(sends)
       IN post_all(IF stopped[s.addr] THEN boxes
                   ELSE [boxes EXCEPT ![s.addr] = Append(@, s.data)],
                   stopped, Tail(sends))

\* ------------------------------------------------------------------ Init
\* ConnectionTracker::new; one WsHandler::new per connection; the store
\* holds the memberships made before the server started
InitialMembers ==
  <<[user |-> "A", channel_id |-> 7], [user |-> "B", channel_id |-> 7]>>

\* r_wstest: connection 1 was upgraded with a valid token of user A in its
\* Authorization header, connection 2 without a token
InitialConnIds == [c \in Conns |-> IF c = 1 THEN "A" ELSE None]

NoMsg == [type |-> "none"]

\* the input of a WsHandler handler run: the connection, the kind of frame or
\* message, and what it carries (the token of a connection_init, the id of a
\* start or stop)
WsInput(c, frame, arg) == [conn |-> c, frame |-> frame, arg |-> arg]
NoInput == WsInput(0, "none", "")

\* the state after construction, before any frame, request or message
Started ==
  /\ channel_members = InitialMembers
  /\ messages = <<>>
  /\ connections = 0
  /\ subscriptions = <<>>
  /\ channels = <<>>
  /\ tracker_mailbox = <<>>
  /\ tracker_panicked = FALSE
  /\ conn_id = InitialConnIds
  /\ ws_stopped = [c \in Conns |-> FALSE]
  /\ ws_panicked = [c \in Conns |-> FALSE]
  /\ ws_mailbox = [c \in Conns |-> <<>>]
  /\ ws_written = [c \in Conns |-> <<>>]
  /\ ws_data = [c \in Conns |-> <<>>]
  /\ ws_closed = [c \in Conns |-> FALSE]
  /\ ws_last = NoInput
  /\ last = [msg |-> NoMsg, sends |-> <<>>, again |-> FALSE]
  /\ retired = {}
  /\ arrived = <<>>
  /\ nframes = 0
  /\ nmemberops = 0

\* no call of GqlSchema::resolve is being followed
EngineIdle ==
  /\ eng_req = [ops |-> <<>>, root |-> <<>>, on_type |-> "Query"]
  /\ eng_env = [nseeds |-> 0, failing |-> {}, preserve_order |-> FALSE]
  /\ eng_pc = "idle"
  /\ eng_op = 0
  /\ eng_stack = <<>>
  /\ eng_res = <<>>
  /\ eng_data = <<>>
  /\ eng_err = <<>>
  /\ eng_calls = <<>>

\* no request is being prepared: GqlRunningQuery::new
PrepareIdle ==
  /\ prep_req = [doc |-> <<>>, variables |-> <<>>]
  /\ variables = <<>>
  /\ starting_type = "Query"
  /\ queries = <<>>
  /\ checks = <<>>
  /\ fragments = <<>>

\* the schema of the data types: no catalog is read
SchemaIdle == external_types = [objects |-> <<>>, input_types |-> <<>>, enums |-> <<>>]

\* no conversion is under way
ConvertIdle ==
  /\ conv_in = [class |-> "PosInt", limbs |-> <<0, 0, 0, 0>>]
  /\ conv_pc = "idle"
  /\ conv_gql = [kind |-> "Null", v |-> <<>>]
  /\ conv_out = [kind |-> "null", v |-> <<>>]

Init ==
  /\ Started
  /\ budget = [frames |-> MaxFrames, messages |-> MaxMessages,
               memberops |-> MaxMemberOps, docs |-> Reqs]
  /\ EngineIdle
  /\ PrepareIdle
  /\ ConvertIdle
  /\ SchemaIdle

\* ------------------------------------------- ConnectionTracker: handlers
\* the tracker takes the next message of its mailbox
TrackerTakes(type) ==
  /\ ~tracker_panicked
  /\ tracker_mailbox # <<>>
  /\ Head(tracker_mailbox).type = type

\* impl Handler<MsgNewSubscription> for ConnectionTracker.
\* db: what the data store does: "ok", "query_err" (get_users_channels fails,
\* the channel list is empty), "pool_err" (pool.get().unwrap() panics)
HandleNewSubscription ==
  /\ TrackerTakes("MsgNewSubscription")
  /\ \E db \in {"ok", "query_err", "pool_err"} :
       LET msg == Head(tracker_mailbox)
           instance == SubscriptionInstance(msg.user_id, msg.sub_id)
           chans == IF db = "ok" THEN get_users_channels(channel_members, msg.user_id)
                    ELSE <<>>
       IN /\ connections' = connections + 1
          /\ tracker_mailbox' = Tail(tracker_mailbox)
          /\ last' = [msg |-> msg, sends |-> <<>>, again |-> msg = last.msg]
          /\ IF db = "pool_err"
             THEN /\ tracker_panicked' = TRUE
                  /\ UNCHANGED <<subscriptions, channels, retired>>
             ELSE /\ subscriptions' = insert_subscription(subscriptions, instance,
                                        ActiveSubscription(chans, msg.addr, msg.sub))
                  /\ channels' = push_all(channels, chans, instance)
                  /\ retired' = retired \ {instance}
                  /\ UNCHANGED tracker_panicked
  /\ UNCHANGED <<storeVars, wsVars, arrived, nframes, nmemberops, fixedVars>>

\* usize::saturating_sub(1)
saturating_dec(n) == IF n = 0 THEN 0 ELSE n - 1

\* impl Handler<MsgWsDisconnected> for ConnectionTracker
HandleWsDisconnected ==
  /\ TrackerTakes("MsgWsDisconnected")
  /\ LET msg == Head(tracker_mailbox)
     IN \E ids \in Orders(user_ids(subscriptions, msg.id)) :
          LET r == remove_user(subscriptions, channels, msg.id, ids)
          IN /\ connections' = saturating_dec(connections)
             /\ subscriptions' = r.subscriptions
             /\ channels' = r.channels
             /\ tracker_panicked' = r.panic
             /\ retired' = IF r.panic THEN retired
                           ELSE retired \cup {i \in Instances : i.user = msg.id}
             /\ tracker_mailbox' = Tail(tracker_mailbox)
             /\ last' = [msg |-> msg, sends |-> <<>>, again |-> msg = last.msg]
  /\ UNCHANGED <<storeVars, wsVars, arrived, nframes, nmemberops, fixedVars>>

\* impl Handler<MsgSubscriptionStop> for ConnectionTracker
HandleSubscriptionStop ==
  /\ TrackerTakes("MsgSubscriptionStop")
  /\ LET msg == Head(tracker_mailbox)
         r == remove_sub(subscriptions, channels, msg.user_id, msg.sub_id)
     IN /\ subscriptions' = r.subscriptions
        /\ channels' = r.channels
        /\ tracker_panicked' = r.panic
        /\ retired' = IF r.panic THEN retired
                      ELSE retired \cup {SubscriptionInstance(msg.user_id, msg.sub_id)}
        /\ tracker_mailbox' = Tail(tracker_mailbox)
        /\ last' = [msg |-> msg, sends |-> <<>>, again |-> msg = last.msg]
  /\ UNCHANGED <<storeVars, connections, wsVars, arrived, nframes, nmemberops,
                 fixedVars>>

\* Handler<MsgMessageCreated> that drops from the bucket the instances whose
\* document failed to resolve
HandleMessageCreated_prunes ==
  /\ TrackerTakes("MsgMessageCreated")
  /\ LET msg == Head(tracker_mailbox)
         r == IF msg.channel \in DOMAIN channels
              THEN deliver_loop(subscriptions, channels[msg.channel], msg, <<>>)
              ELSE [sends |-> <<>>, panic |-> FALSE]
         failed == {r.sends[i].inst : i \in {j \in DOMAIN r.sends : ~r.sends[j].data.has_data}}
     IN /\ ws_mailbox' = post_all(ws_mailbox, ws_stopped, r.sends)
        /\ channels' = IF msg.channel \in DOMAIN channels
                       THEN [channels EXCEPT ![msg.channel] =
                               SelectSeq(@, LAMBDA x : x \notin failed)]
                       ELSE channels
        /\ tracker_panicked' = r.panic
        /\ tracker_mailbox' = Tail(tracker_mailbox)
        /\ last' = [msg |-> msg, sends |-> r.sends, again |-> msg = last.msg]
  /\ UNCHANGED <<storeVars, connections, subscriptions, conn_id, ws_stopped, ws_panicked,
                 ws_written, ws_data, ws_closed, ws_last, retired, arrived, nframes,
                 nmemberops, fixedVars>>

\* impl Handler<MsgMessageCreated> for ConnectionTracker: every document of
\* the bucket is resolved with the pool and the address of the tracker in its
\* context, so what its resolvers insert and send happens during the handler
HandleMessageCreated ==
  /\ TrackerTakes("MsgMessageCreated")
  /\ LET msg == Head(tracker_mailbox)
         r == IF msg.channel \in DOMAIN channels
              THEN deliver_loop(subscriptions, channels[msg.channel], msg, <<>>)
              ELSE [sends |-> <<>>, panic |-> FALSE]
         done == resolver_effects(subscriptions, r.sends,
                                  [rows |-> messages, events |-> <<>>])
     IN /\ Len(done.rows) <= budget.messages \/ done.events = <<>>
        /\ ws_mailbox' = post_all(ws_mailbox, ws_stopped, r.sends)
        /\ tracker_panicked' = r.panic
        /\ tracker_mailbox' = Tail(tracker_mailbox) \o done.events
        /\ messages' = done.rows
        /\ arrived' = arrived \o done.events
        /\ last' = [msg |-> msg, sends |-> r.sends, again |-> msg = last.msg]
  /\ UNCHANGED <<channel_members, trackerVars, conn_id, ws_stopped, ws_panicked,
                 ws_written, ws_data, ws_closed, ws_last, retired, nframes, nmemberops,
                 fixedVars>>

\* ------------------------------------------------------------ WsHandler
\* frames of ServerWsMessage, and the websocket control frames
CloseFrame == [type |-> "close"]
AckFrame == [type |-> "connection_ack"]
ErrorFrame == [type |-> "error"]
\* ServerWsMessage::data(id, data)
DataFrame(id, data) ==
  [type |-> "data", id |-> id, payload |-> [data |-> data, errors |-> <<>>]]

\* WsHandler::disconnected: the messages it sends to the tracker
disconnected(cid) == IF cid # None THEN <<MsgWsDisconnected(cid)>> ELSE <<>>

\* the connection can take a frame: the process and the actor are running
WsTakes(c) ==
  /\ ~tracker_panicked
  /\ ~ws_stopped[c]
  /\ nframes < budget.frames

\* (ws::Message::Ping is answered by a pong, every other kind of frame is
\* ignored: neither touches the actor or the tracker)
\* the effect of one run of StreamHandler::handle on connection c: the new
\* conn_id, the messages sent to the tracker, the frames written, whether
\* ctx.stop() was called and whether the handler panicked. A stopped actor
\* drops its mailbox.
WsEffect(c, cid, sends, frames, stop, panic) ==
  /\ conn_id' = [conn_id EXCEPT ![c] = cid]
  /\ tracker_mailbox' = tracker_mailbox \o sends
  /\ ws_written' = [ws_written EXCEPT ![c] = frames]
  /\ UNCHANGED ws_data
  /\ ws_closed' = [ws_closed EXCEPT ![c] = @ \/ \E i \in DOMAIN frames : frames[i] = CloseFrame]
  /\ ws_stopped' = [ws_stopped EXCEPT ![c] = stop \/ panic]
  /\ ws_panicked' = [ws_panicked EXCEPT ![c] = panic]
  /\ ws_mailbox' = IF stop \/ panic THEN [ws_mailbox EXCEPT ![c] = <<>>] ELSE ws_mailbox
  /\ nframes' = nframes + 1
  /\ UNCHANGED <<storeVars, trackerVars, tracker_panicked, last, retired, arrived,
                 nmemberops, fixedVars>>

\* WsUnparsable that treats the frame as a protocol violation: error frame,
\* close, notify the tracker, stop
WsUnparsable_closes(c) ==
  /\ WsTakes(c)
  /\ WsEffect(c, conn_id[c], disconnected(conn_id[c]), <<ErrorFrame, CloseFrame>>,
              TRUE, FALSE)
  /\ ws_last' = WsInput(c, "unparsable", "")

\* ws::Message::Text whose text ClientWsMessage::from_str rejects
WsUnparsable(c) ==
  /\ WsTakes(c)
  /\ WsEffect(c, conn_id[c], <<>>, <<ErrorFrame>>, FALSE, FALSE)
  /\ ws_last' = WsInput(c, "unparsable", "")

\* the state the ConnectionInit arm leaves behind. auth: what the payload
\* holds under "Authorization": "absent" (no string there), "invalid" (a
\* token decode_jwt rejects) or the user of a valid token
init_effect(cid, auth) ==
  LET valid == auth \in Users
      bad == auth = "invalid"
      cid1 == IF valid THEN auth ELSE cid
      sends1 == IF bad THEN disconnected(cid) ELSE <<>>
      out1 == IF bad THEN <<CloseFrame>> ELSE <<>>
      none == cid1 = None
  IN [conn_id |-> cid1,
      sends |-> sends1 \o (IF none THEN disconnected(cid1) ELSE <<>>),
      out |-> out1 \o (IF none THEN <<CloseFrame>> ELSE <<>>) \o <<AckFrame>>,
      stop |-> bad \/ none]

\* ClientWsMessage::ConnectionInit
WsConnectionInit(c) ==
  /\ WsTakes(c)
  /\ \E auth \in Users \cup {"absent", "invalid"} :
       LET e == init_effect(conn_id[c], auth)
       IN /\ WsEffect(c, e.conn_id, e.sends, e.out, e.stop, FALSE)
          /\ ws_last' = WsInput(c, "connection_init", auth)

\* ClientWsMessage::ConnectionTerminate
WsConnectionTerminate(c) ==
  /\ WsTakes(c)
  /\ WsEffect(c, conn_id[c], disconnected(conn_id[c]), <<CloseFrame>>, TRUE, FALSE)
  /\ ws_last' = WsInput(c, "connection_terminate", "")

\* ClientWsMessage::Start
WsStart(c) ==
  /\ WsTakes(c)
  /\ \E sub_id \in SubIds, req \in budget.docs :
       /\ IF conn_id[c] # None
          THEN WsEffect(c, conn_id[c],
                        <<MsgNewSubscription(conn_id[c], sub_id, req, c)>>,
                        <<>>, FALSE, FALSE)
          ELSE WsEffect(c, conn_id[c], <<>>, <<CloseFrame>>, FALSE, FALSE)
       /\ ws_last' = WsInput(c, "start", sub_id)

\* ClientWsMessage::Stop; self.conn_id.as_ref().unwrap() panics without an
\* identity
WsStop(c) ==
  /\ WsTakes(c)
  /\ \E sub_id \in SubIds :
       /\ IF conn_id[c] # None
          THEN WsEffect(c, conn_id[c], <<MsgSubscriptionStop(sub_id, conn_id[c])>>,
                        <<>>, FALSE, FALSE)
          ELSE WsEffect(c, conn_id[c], <<>>, <<>>, FALSE, TRUE)
       /\ ws_last' = WsInput(c, "stop", sub_id)

\* ws::Message::Close
WsClose(c) ==
  /\ WsTakes(c)
  /\ WsEffect(c, conn_id[c], disconnected(conn_id[c]), <<>>, TRUE, FALSE)
  /\ ws_last' = WsInput(c, "close", "")

\* the transport drops without a close frame: the stream of the actor ends
\* and the actor stops. WsHandler has no finished/stopped hook of its own, so
\* nothing else runs.
WsTransportDrop(c) ==
  /\ WsTakes(c)
  /\ WsEffect(c, conn_id[c], <<>>, <<>>, TRUE, FALSE)
  /\ ws_last' = WsInput(c, "transport_drop", "")

\* impl Handler<MsgSubscriptionData> for WsHandler
HandleSubscriptionData(c) ==
  /\ ~tracker_panicked
  /\ ~ws_stopped[c]
  /\ ws_mailbox[c] # <<>>
  /\ LET data == Head(ws_mailbox[c])
         frames == IF data.has_data /\ data.errors = 0
                   THEN <<DataFrame(data.id, data.data)>> ELSE <<>>
     IN /\ ws_written' = [ws_written EXCEPT ![c] = frames]
        /\ ws_data' = [ws_data EXCEPT ![c] = @ \o frames]
        /\ ws_mailbox' = [ws_mailbox EXCEPT ![c] = Tail(@)]
        /\ ws_last' = WsInput(c, "MsgSubscriptionData", data.id)
  /\ UNCHANGED <<storeVars, trackerVars, tracker_mailbox, tracker_panicked, conn_id,
                 ws_stopped, ws_panicked, ws_closed, last, retired, arrived, nframes,
                 nmemberops, fixedVars>>

\* ------------------------------------------------------------ resolvers
\* the msg_id mutation_create_message puts into the event
event_msg_id(new_msg) == 100

\* mutation_create_message run for an authenticated POST of cur_user: persist
\* the message, then notify the tracker. db: "ok", or "err" when the pool or
\* the insert fails and the resolver returns the error.
CreateMessage ==
  /\ ~tracker_panicked
  /\ Len(messages) < budget.messages
  /\ \E cur_user \in Users, msg_channel \in Chans, msg_content \in Contents,
        db \in {"ok", "err"} :
       IF db = "ok"
       THEN LET rows == create_message(messages, cur_user, msg_channel, msg_content)
                new_msg == rows[Len(rows)]
                actor_message == MsgMessageCreated(msg_channel, msg_content, cur_user,
                                                   event_msg_id(new_msg))
            IN /\ messages' = rows
               /\ tracker_mailbox' = Append(tracker_mailbox, actor_message)
               /\ arrived' = Append(arrived, actor_message)
               /\ UNCHANGED <<channel_members, trackerVars, tracker_panicked, wsVars,
                              last, retired, nframes, nmemberops, fixedVars>>
       ELSE UNCHANGED vars

\* ---------------------------------------------------- store: memberships
\* add_user_to_channel, for a user who is not yet a member
AddUserToChannel ==
  /\ ~tracker_panicked
  /\ nmemberops < budget.memberops
  /\ \E user \in Users, channel \in Chans :
       /\ \A i \in 1..Len(channel_members) :
            ~(channel_members[i].user = user /\ channel_members[i].channel_id = channel)
       /\ channel_members' = Append(channel_members,
                                    [user |-> user, channel_id |-> channel])
  /\ nmemberops' = nmemberops + 1
  /\ UNCHANGED <<messages, trackerVars, tracker_mailbox, tracker_panicked, wsVars,
                 last, retired, arrived, nframes, fixedVars>>

\* models::remove_user, for a member
RemoveUserFromChannel ==
  /\ ~tracker_panicked
  /\ nmemberops < budget.memberops
  /\ \E user \in Users, channel \in Chans :
       LET keep(r) == ~(r.user = user /\ r.channel_id = channel)
       IN /\ \E i \in 1..Len(channel_members) : ~keep(channel_members[i])
          /\ channel_members' = SelectSeq(channel_members, keep)
  /\ nmemberops' = nmemberops + 1
  /\ UNCHANGED <<messages, trackerVars, tracker_mailbox, tracker_panicked, wsVars,
                 last, retired, arrived, nframes, fixedVars>>

\* --------------------------------------------------------- specification
Next ==
  \/ HandleNewSubscription
  \/ HandleWsDisconnected
  \/ HandleSubscriptionStop
  \/ HandleMessageCreated
  \/ \E c \in Conns : WsUnparsable(c)
  \/ \E c \in Conns : WsConnectionInit(c)
  \/ \E c \in Conns : WsConnectionTerminate(c)
  \/ \E c \in Conns : WsStart(c)
  \/ \E c \in Conns : WsStop(c)
  \/ \E c \in Conns : WsClose(c)
  \/ \E c \in Conns : WsTransportDrop(c)
  \/ \E c \in Conns : HandleSubscriptionData(c)
  \/ CreateMessage
  \/ AddUserToChannel
  \/ RemoveUserFromChannel

Spec == Init /\ [][Next]_vars

\* runs with room for two events: two frames, two messages, one membership
\* change
MaxOrderFrames == 2
MaxOrderMessages == 2
MaxOrderMemberOps == 1

InitOrder ==
  /\ Started
  /\ budget = [frames |-> MaxOrderFrames, messages |-> MaxOrderMessages,
               memberops |-> MaxOrderMemberOps, docs |-> Reqs]
  /\ EngineIdle
  /\ PrepareIdle
  /\ ConvertIdle
  /\ SchemaIdle

SpecOrder == InitOrder /\ [][Next]_vars

\* runs where the clients register mutation documents as well: two frames,
\* room for the message of one POST and the one its delivery creates, one
\* membership change
MaxEchoFrames == 2
MaxEchoMessages == 2
MaxEchoMemberOps == 1

InitEcho ==
  /\ Started
  /\ budget = [frames |-> MaxEchoFrames, messages |-> MaxEchoMessages,
               memberops |-> MaxEchoMemberOps, docs |-> MutationReqs]
  /\ EngineIdle
  /\ PrepareIdle
  /\ ConvertIdle
  /\ SchemaIdle

SpecEcho == InitEcho /\ [][Next]_vars

\* ===================================================== the query engine
\* bounds of the requests and of what the resolvers return
MaxSeeds == 2
MaxWidth == 2
MaxDepth == 2
MaxOps == 2

\* GqlValue (graphql_parser::query::Value): the variants the resolvers of
\* this model produce
GqlString(s) == [kind |-> "String", v |-> s]
GqlBoolean(b) == [kind |-> "Boolean", v |-> b]
GqlObject(map) == [kind |-> "Object", v |-> map]
GqlList(items) == [kind |-> "List", v |-> items]
GqlNull == [kind |-> "Null", v |-> <<>>]
GqlInt(i) == [kind |-> "Int", v |-> i]
GqlFloat(f) == [kind |-> "Float", v |-> f]
GqlVariable(name) == [kind |-> "Variable", v |-> name]
GqlEnum(name) == [kind |-> "Enum", v |-> name]

\* the field names of the schemas below in the order of String's Ord, the
\* order in which a BTreeMap<String, _> iterates over its keys
KeyOrder ==
  <<"__schema", "a", "b", "defaultValue", "deprecationReason", "description",
    "enumValues", "fields", "inputFields", "isDeprecated", "jam", "kids", "kind",
    "name", "ofType", "one", "parentTypename", "tag", "type", "types">>
sorted_keys(map) == SelectSeq(KeyOrder, LAMBDA k : k \in DOMAIN map)

\* BTreeMap::insert
map_insert(map, key, val) ==
  [k \in DOMAIN map \cup {key} |-> IF k = key THEN val ELSE map[k]]

\* SimpleField without arguments (directives play no part in the engine)
SimpleField(name, fields) == [name |-> name, arguments |-> <<>>, fields |-> fields]

\* the schema: types Query and Node, each with the scalar fields a, b and
\* tag, the field one: Node and the field kids: [Node]
ScalarFields == {"a", "b", "tag"}
CompositeFields == {"one", "kids"}

SeqsUpTo(S, n) == UNION {[1..k -> S] : k \in 1..n}

\* the field trees process_field builds for selections of the given depth
RECURSIVE FieldTrees(_)
FieldTrees(depth) ==
  {SimpleField(n, <<>>) : n \in ScalarFields} \cup
  (IF depth = 0 THEN {}
   ELSE {SimpleField(n, fs) : n \in CompositeFields,
                              fs \in SeqsUpTo(FieldTrees(depth - 1), MaxWidth)})

\* the fields of one operation: up to MaxWidth trees one level below the
\* deepest, or one tree of the deepest level
Selections ==
  SeqsUpTo(FieldTrees(MaxDepth - 1), MaxWidth) \cup {<<f>> : f \in FieldTrees(MaxDepth)}

\* the operations of a request (get_initial_items): one operation, or up to
\* MaxOps operations of one scalar field each
Operations ==
  {<<s>> : s \in Selections} \cup
  SeqsUpTo({<<f>> : f \in FieldTrees(0)}, MaxOps)

\* what a scalar resolver returns for the field `of` of the object at `at`
Content(at, of) == [at |-> at, of |-> of]

\* the place in the response of the object a frame builds: resolvers read
\* it from the seed of their parent, as message_sender reads root "id"
path_of(data) == IF "tag" \in DOMAIN data THEN data["tag"].v.at ELSE <<>>

\* the seed of an object: its place under "tag", and "jam" (as in
\* tests::subscription); neither has a resolver
seed(path) == [tag |-> GqlString(Content(path, "tag")), jam |-> GqlBoolean(FALSE)]

\* the roots a caller passes: none, one that seeds the top-level field a,
\* or one that seeds the top-level field one with an object
Roots ==
  {<<>>, [a |-> GqlString(Content(<<>>, "root"))], [one |-> GqlObject(seed(<<0>>))]}

\* ResolutionReturn and the Err of ResResult
Scalar(v) == [kind |-> "Scalar", v |-> v]
Type(gql_type, initial) == [kind |-> "Type", gql_type |-> gql_type, initial |-> initial]
TypeList(gql_type, initial) ==
  [kind |-> "TypeList", gql_type |-> gql_type, initial |-> initial]
ResErr(e) == [kind |-> "Err", err |-> e]

\* --------------------------------------------- introspection resolvers

\* query::Type: the named type at its base and the NonNullType and
\* ListType wrappers around it, the outermost first
NamedType(name) == [wrappers |-> <<>>, name |-> name]
NonNullType(j) == [j EXCEPT !.wrappers = <<"NonNullType">> \o @]
ListType(j) == [j EXCEPT !.wrappers = <<"ListType">> \o @]

\* the variant of a query::Type, and the type a wrapper wraps
type_kind(t) == IF t.wrappers = <<>> THEN "NamedType" ELSE Head(t.wrappers)
inner_type(t) == [t EXCEPT !.wrappers = Tail(@)]

BUILTIN_SCALARS == {"String", "Boolean", "ID", "Int", "Float"}

\* a catalog of SchemaTypes is the sequence of its definitions in the order
\* of their names, the order of BTreeMap::keys; contains_key and get
contains_key(catalog, name) == \E i \in DOMAIN catalog : catalog[i].name = name
get(catalog, name) == catalog[CHOOSE i \in DOMAIN catalog : catalog[i].name = name]

\* a resolver panicked
ResPanic == [kind |-> "Panic"]

\* what a resolver finds under a key of its root
is_enum(root, key, name) ==
  key \in DOMAIN root /\ root[key].kind = "Enum" /\ root[key].v = name
is_string(root, key) == key \in DOMAIN root /\ root[key].kind = "String"

\* introspect::convert_field_type
RECURSIVE convert_field_type(_)
convert_field_type(field_type) ==
  LET result == [name |-> GqlString("generic_type")]
      wrapped(kind) ==
        map_insert(map_insert(result, "ofType",
                              GqlObject(convert_field_type(inner_type(field_type)))),
                   "kind", GqlEnum(kind))
      named == map_insert(result, "name", GqlString(field_type.name))
      scalar == IF field_type.name \in BUILTIN_SCALARS
                THEN map_insert(named, "kind", GqlEnum("SCALAR")) ELSE named
  IN CASE type_kind(field_type) = "ListType" -> wrapped("LIST")
       [] type_kind(field_type) = "NonNullType" -> wrapped("NON_NULL")
       [] OTHER ->
            IF contains_key(external_types.objects, field_type.name)
            THEN map_insert(scalar, "kind", GqlEnum("OBJECT"))
            ELSE IF contains_key(external_types.enums, field_type.name)
            THEN map_insert(scalar, "kind", GqlEnum("ENUM"))
            ELSE scalar

\* introspect::full_input_type_resolver: the GqlValue, or Panic when the
\* unwrap of input_types.get(name) finds None
RECURSIVE full_input_type_resolver(_)
full_input_type_resolver(value_type) ==
  LET bmap == [name |-> GqlString("")]
      wrapped(kind) ==
        LET of == full_input_type_resolver(inner_type(value_type))
        IN IF of.kind = "panic" THEN of
           ELSE GqlObject(map_insert(map_insert(bmap, "kind", GqlEnum(kind)),
                                     "ofType", of))
      named == map_insert(bmap, "name", GqlString(value_type.name))
  IN CASE type_kind(value_type) = "NonNullType" -> wrapped("NON_NULL")
       [] type_kind(value_type) = "ListType" -> wrapped("LIST")
       [] OTHER ->
            IF value_type.name \in BUILTIN_SCALARS
            THEN GqlObject(map_insert(named, "kind", GqlEnum("SCALAR")))
            ELSE IF contains_key(external_types.input_types, value_type.name)
            THEN GqlObject(map_insert(map_insert(named, "kind",
                                                 GqlEnum("INPUT_OBJECT")),
                                      "ofType", GqlNull))
            ELSE [kind |-> "panic", v |-> <<>>]

\* introspect::r_schema_types
r_schema_types ==
  LET seeds(catalog, kind) ==
        [i \in DOMAIN catalog |->
           [name |-> GqlString(catalog[i].name), kind |-> GqlEnum(kind)]]
  IN TypeList("__Type", seeds(external_types.objects, "OBJECT")
                        \o seeds(external_types.input_types, "INPUT_OBJECT"))

\* introspect::r_type_fields
r_type_fields(root) ==
  IF is_enum(root, "kind", "OBJECT") /\ is_string(root, "name")
  THEN IF contains_key(external_types.objects, root["name"].v)
       THEN LET def == get(external_types.objects, root["name"].v)
            IN TypeList("__Field",
                 [i \in DOMAIN def.fields |->
                    [name |-> GqlString(def.fields[i].name),
                     parentTypename |-> root["name"],
                     description |-> GqlNull,
                     type |-> GqlObject(convert_field_type(def.fields[i].field_type)),
                     isDeprecated |-> GqlBoolean(FALSE),
                     deprecationReason |-> GqlNull]])
       ELSE ResErr("MissingType")
  ELSE Scalar(GqlNull)

\* introspect::r_type_inputfields
r_type_inputfields(root) ==
  IF "kind" \in DOMAIN root /\ root["kind"].kind = "Enum" /\ is_string(root, "name")
  THEN IF root["kind"].v = "INPUT_OBJECT"
       THEN IF contains_key(external_types.input_types, root["name"].v)
            THEN LET def == get(external_types.input_types, root["name"].v)
                 IN TypeList("__InputValue",
                      [i \in DOMAIN def.fields |->
                         [name |-> GqlString(def.fields[i].name),
                          description |-> GqlNull,
                          defaultValue |-> GqlNull,
                          parentTypename |-> root["name"]]])
            ELSE ResPanic
       ELSE Scalar(GqlNull)
  ELSE ResErr("InvalidField")

\* introspect::r_type_enumvals
r_type_enumvals(root) ==
  IF "kind" \in DOMAIN root /\ root["kind"].kind = "Enum" /\ is_string(root, "name")
  THEN IF root["kind"].v = "ENUM"
       THEN IF contains_key(external_types.enums, root["name"].v)
            THEN LET en == get(external_types.enums, root["name"].v)
                 IN TypeList("__EnumValue",
                      [i \in DOMAIN en.values |->
                         [name |-> GqlString(en.values[i]),
                          description |-> GqlNull,
                          isDeprecated |-> GqlBoolean(FALSE),
                          deprecationReason |-> GqlNull]])
            ELSE ResErr("MissingType")
       ELSE Scalar(GqlNull)
  ELSE ResErr("InvalidField")

\* introspect::r_inputvalue_type
r_inputvalue_type(root) ==
  IF /\ is_string(root, "name") /\ is_string(root, "parentTypename")
     /\ contains_key(external_types.input_types, root["parentTypename"].v)
  THEN LET input_def == get(external_types.input_types, root["parentTypename"].v)
       IN IF \E i \in DOMAIN input_def.fields :
               input_def.fields[i].name = root["name"].v
          THEN LET field == get(input_def.fields, root["name"].v)
                   value == full_input_type_resolver(field.value_type)
               IN IF value.kind = "panic" THEN ResPanic ELSE Scalar(value)
          ELSE ResPanic
  ELSE ResErr("InvalidField")

\* the meta types and the fields GqlSchema::new registers a resolver for
\* (of those the introspection of types, fields, input fields and enum
\* values reaches)
MetaResolvers ==
  [__Schema |-> {"types"}, __Type |-> {"fields", "inputFields", "enumValues"},
   __Field |-> {}, __InputValue |-> {"type"}, __EnumValue |-> {}]

\* get_resolvers finds a resolver for these fields of the data types
Resolvers == {"a", "b", "one", "kids"}

\* get_resolvers(on_type, on_field).is_ok()
has_resolver(on_type, on_field) ==
  IF on_type \in DOMAIN MetaResolvers THEN on_field \in MetaResolvers[on_type]
  ELSE on_field \in Resolvers \cup {"__schema"}

\* the resolvers of the meta types, and Query.__schema (r_query_schema)
introspect(on_type, on_field, root) ==
  CASE on_field = "__schema" -> Type("__Schema", <<>>)
    [] on_type = "__Schema" /\ on_field = "types" -> r_schema_types
    [] on_type = "__Type" /\ on_field = "fields" -> r_type_fields(root)
    [] on_type = "__Type" /\ on_field = "inputFields" -> r_type_inputfields(root)
    [] on_type = "__Type" /\ on_field = "enumValues" -> r_type_enumvals(root)
    [] on_type = "__InputValue" /\ on_field = "type" -> r_inputvalue_type(root)

\* get_resolution_value_next. For the meta types and Query.__schema it calls
\* the introspection resolver. For the data types a and b return a scalar,
\* one returns Type with a seed, kids returns TypeList with eng_env.nseeds
\* seeds in the order 1..nseeds, and a resolver in eng_env.failing returns
\* an error; tag, jam and the seeded keys of the meta types have no resolver
get_resolution_value_next(on_type, field, data) ==
  IF field.name = "__type"
  THEN Type("__Type", [name |-> GqlString(on_type), kind |-> GqlEnum("OBJECT")])
  ELSE IF field.name = "__typename" THEN Scalar(GqlString(on_type))
  ELSE IF ~has_resolver(on_type, field.name) THEN ResErr("MissingResolver")
  ELSE IF on_type \in DOMAIN MetaResolvers \/ field.name = "__schema"
  THEN introspect(on_type, field.name, data)
  ELSE IF field.name \in eng_env.failing THEN ResErr("QueryResult")
  ELSE CASE field.name \in {"a", "b"} ->
              Scalar(GqlString(Content(path_of(data), field.name)))
         [] field.name = "one" ->
              Type("Node", seed(Append(path_of(data), 0)))
         [] field.name = "kids" ->
              TypeList("Node", [i \in 1..eng_env.nseeds |->
                                  seed(Append(path_of(data), i))])

\* ResolutionContext::new; in_list is <<>> for None and <<index>> for Some
ResolutionContext(cur_type, map_key, fields) ==
  [cur_type |-> cur_type, map_key |-> map_key, fields |-> fields,
   field_res_progress |-> 0, data |-> <<>>, in_list |-> <<>>]

\* set_list recording the index after the parent's
set_list_past(rctx, index, data) ==
  [rctx EXCEPT !.in_list = <<index + 1>>, !.data = data]

\* ResolutionContext::set_list
set_list(rctx, index, data) == [rctx EXCEPT !.in_list = <<index>>, !.data = data]

\* the record of one resolver invocation: the type and the object it
\* resolves a field of, the field, the arguments it receives, the field's
\* position in the selection, and whether the resolver returned an error;
\* <<>> when get_resolvers found no resolver
invocation(res_ctx, pos, field, value) ==
  IF has_resolver(res_ctx.cur_type, field.name)
  THEN <<[op |-> eng_op, on |-> res_ctx.cur_type, at |-> path_of(res_ctx.data),
          name |-> field.name, args |-> field.arguments, idx |-> pos,
          failed |-> value.kind = "Err"]>>
  ELSE <<>>

\* field_loop that takes the field after field_res_progress, and so stops one
\* field early
RECURSIVE field_loop_short(_)
field_loop_short(res_ctx) ==
  IF res_ctx.field_res_progress + 1 >= Len(res_ctx.fields)
  THEN [kind |-> "complete", ctx |-> res_ctx, calls |-> <<>>]
  ELSE LET pos == res_ctx.field_res_progress + 1
           field == res_ctx.fields[pos]
           ctx1 == [res_ctx EXCEPT !.field_res_progress = @ + 1]
       IN IF field.name \in DOMAIN ctx1.data THEN field_loop_short(ctx1)
          ELSE LET value == get_resolution_value_next(ctx1.cur_type, field, ctx1.data)
                   calls == invocation(ctx1, pos, field, value)
               IN CASE value.kind = "Err" ->
                         [kind |-> "err", ctx |-> ctx1, err |-> value.err,
                          calls |-> calls]
                    [] value.kind = "Panic" ->
                         [kind |-> "panic", ctx |-> ctx1, calls |-> calls]
                    [] value.kind = "Scalar" ->
                         LET rest == field_loop_short([ctx1 EXCEPT !.data =
                                        map_insert(@, field.name, value.v)])
                         IN [rest EXCEPT !.calls = calls \o @]
                    [] OTHER ->
                         [kind |-> value.kind, ctx |-> ctx1, field |-> field,
                          value |-> value, calls |-> calls]

\* field_loop going on with the next field after a resolver's error
RECURSIVE field_loop_swallows(_)
field_loop_swallows(res_ctx) ==
  IF res_ctx.field_res_progress >= Len(res_ctx.fields)
  THEN [kind |-> "complete", ctx |-> res_ctx, calls |-> <<>>]
  ELSE LET pos == res_ctx.field_res_progress + 1
           field == res_ctx.fields[pos]
           ctx1 == [res_ctx EXCEPT !.field_res_progress = @ + 1]
       IN IF field.name \in DOMAIN ctx1.data THEN field_loop_swallows(ctx1)
          ELSE LET value == get_resolution_value_next(ctx1.cur_type, field, ctx1.data)
                   calls == invocation(ctx1, pos, field, value)
               IN CASE value.kind = "Err" /\ calls # <<>> ->
                         LET rest == field_loop_swallows(ctx1)
                         IN [rest EXCEPT !.calls = calls \o @]
                    [] value.kind = "Err" ->
                         [kind |-> "err", ctx |-> ctx1, err |-> value.err,
                          calls |-> calls]
                    [] value.kind = "Panic" ->
                         [kind |-> "panic", ctx |-> ctx1, calls |-> calls]
                    [] value.kind = "Scalar" ->
                         LET rest == field_loop_swallows([ctx1 EXCEPT !.data =
                                        map_insert(@, field.name, value.v)])
                         IN [rest EXCEPT !.calls = calls \o @]
                    [] OTHER ->
                         [kind |-> value.kind, ctx |-> ctx1, field |-> field,
                          value |-> value, calls |-> calls]

\* field_loop taking the fields of the selection from the last to the first
RECURSIVE field_loop_backwards(_)
field_loop_backwards(res_ctx) ==
  IF res_ctx.field_res_progress >= Len(res_ctx.fields)
  THEN [kind |-> "complete", ctx |-> res_ctx, calls |-> <<>>]
  ELSE LET pos == Len(res_ctx.fields) - res_ctx.field_res_progress
           field == res_ctx.fields[pos]
           ctx1 == [res_ctx EXCEPT !.field_res_progress = @ + 1]
       IN IF field.name \in DOMAIN ctx1.data THEN field_loop_backwards(ctx1)
          ELSE LET value == get_resolution_value_next(ctx1.cur_type, field, ctx1.data)
                   calls == invocation(ctx1, pos, field, value)
               IN CASE value.kind = "Err" ->
                         [kind |-> "err", ctx |-> ctx1, err |-> value.err,
                          calls |-> calls]
                    [] value.kind = "Panic" ->
                         [kind |-> "panic", ctx |-> ctx1, calls |-> calls]
                    [] value.kind = "Scalar" ->
                         LET rest == field_loop_backwards([ctx1 EXCEPT !.data =
                                        map_insert(@, field.name, value.v)])
                         IN [rest EXCEPT !.calls = calls \o @]
                    [] OTHER ->
                         [kind |-> value.kind, ctx |-> ctx1, field |-> field,
                          value |-> value, calls |-> calls]

\* the inner while loop of resolve_loop_next on the popped frame: it goes on
\* over seeded fields and scalars, and ends with an error, with a Type or
\* TypeList to push, or with the frame complete
RECURSIVE field_loop(_)
field_loop(res_ctx) ==
  IF res_ctx.field_res_progress >= Len(res_ctx.fields)
  THEN [kind |-> "complete", ctx |-> res_ctx, calls |-> <<>>]
  ELSE LET pos == res_ctx.field_res_progress + 1
           field == res_ctx.fields[pos]
           ctx1 == [res_ctx EXCEPT !.field_res_progress = @ + 1]
       IN IF field.name \in DOMAIN ctx1.data THEN field_loop(ctx1)
          ELSE LET value == get_resolution_value_next(ctx1.cur_type, field, ctx1.data)
                   calls == invocation(ctx1, pos, field, value)
               IN CASE value.kind = "Err" ->
                         [kind |-> "err", ctx |-> ctx1, err |-> value.err,
                          calls |-> calls]
                    [] value.kind = "Panic" ->
                         [kind |-> "panic", ctx |-> ctx1, calls |-> calls]
                    [] value.kind = "Scalar" ->
                         LET rest == field_loop([ctx1 EXCEPT !.data =
                                        map_insert(@, field.name, value.v)])
                         IN [rest EXCEPT !.calls = calls \o @]
                    [] OTHER ->
                         [kind |-> value.kind, ctx |-> ctx1, field |-> field,
                          value |-> value, calls |-> calls]

\* JsonValue; an object is the sequence of its entries in iteration order
JsonString(s) == [kind |-> "string", v |-> s]
JsonBool(b) == [kind |-> "bool", v |-> b]
JsonArray(items) == [kind |-> "array", v |-> items]
JsonObject(entries) == [kind |-> "object", v |-> entries]
JsonEntry(key, value) == [key |-> key, value |-> value]

\* place of a key in the order of String's Ord
key_rank(key) == CHOOSE i \in DOMAIN KeyOrder : KeyOrder[i] = key

\* serde_json::Map::insert. A present key keeps its place and gets the new
\* value. A new key goes to the end when serde_json is built with
\* preserve_order (IndexMap), and to its sorted place otherwise (BTreeMap)
json_insert(entries, key, value, preserve_order) ==
  IF \E i \in DOMAIN entries : entries[i].key = key
  THEN [i \in DOMAIN entries |->
          IF entries[i].key = key THEN JsonEntry(key, value) ELSE entries[i]]
  ELSE IF preserve_order THEN Append(entries, JsonEntry(key, value))
  ELSE SelectSeq(entries, LAMBDA e : key_rank(e.key) < key_rank(key))
       \o <<JsonEntry(key, value)>>
       \o SelectSeq(entries, LAMBDA e : key_rank(e.key) > key_rank(key))

\* json!(i.as_i64().unwrap()) for the i32 of a GqlValue::Int: the limbs of
\* the i64 of that value, PosInt when it is not negative and NegInt otherwise
from_i64(i) ==
  IF i >= 0
  THEN [class |-> "PosInt", limbs |-> <<0, 0, i \div 65536, i % 65536>>]
  ELSE [class |-> "NegInt",
        limbs |-> <<65535, 65535, ((i - (i % 65536)) \div 65536) + 65536,
                    i % 65536>>]

\* execution::gql_to_json: the entries of an Object are inserted into a new
\* JsonMap in the BTreeMap's order, which is sorted under both builds
RECURSIVE gql_to_json(_)
gql_to_json(value) ==
  CASE value.kind = "String" -> JsonString(value.v)
    [] value.kind = "Boolean" -> JsonBool(value.v)
    [] value.kind = "Enum" -> JsonString(value.v)
    [] value.kind = "Null" -> [kind |-> "null", v |-> <<>>]
    [] value.kind = "Int" -> [kind |-> "number", v |-> from_i64(value.v)]
    [] value.kind = "Float" ->
         [kind |-> "number", v |-> [class |-> "Float", limbs |-> value.v]]
    [] value.kind = "List" ->
         JsonArray([i \in DOMAIN value.v |-> gql_to_json(value.v[i])])
    [] value.kind = "Object" ->
         LET keys == sorted_keys(value.v)
         IN JsonObject([i \in DOMAIN keys |->
                          JsonEntry(keys[i], gql_to_json(value.v[keys[i]]))])

\* field.fields.iter().find(|f| f.name == *key)
find_field(fields, key) ==
  fields[CHOOSE i \in DOMAIN fields :
           /\ fields[i].name = key
           /\ \A j \in DOMAIN fields : fields[j].name = key => i <= j]

\* sparsify_return: of an Object, the keys that name a field of the
\* selection, each value sparsified against that field; any other value
\* (a List too) is left as it is
RECURSIVE sparsify_return(_, _)
sparsify_return(val, field) ==
  IF val.kind = "Object"
  THEN LET kept == {key \in DOMAIN val.v :
                      \E i \in DOMAIN field.fields : field.fields[i].name = key}
       IN GqlObject([key \in kept |->
                       sparsify_return(val.v[key], find_field(field.fields, key))])
  ELSE val

\* the loop of resolve over pending_query.fields: unwrap the field's value
\* in the map the engine returned, sparsify it in place, convert it and
\* insert it
RECURSIVE collect_fields(_, _, _)
collect_fields(fields, res, data) ==
  IF fields = <<>> THEN [res |-> res, data |-> data, panic |-> FALSE]
  ELSE LET field == Head(fields)
       IN IF field.name \notin DOMAIN res
          THEN [res |-> res, data |-> data, panic |-> TRUE]
          ELSE LET val == sparsify_return(res[field.name], field)
               IN collect_fields(Tail(fields), map_insert(res, field.name, val),
                                 json_insert(data, field.name, gql_to_json(val),
                                             eng_env.preserve_order))

\* a call of resolve with a prepared request, against some behaviour of the
\* resolvers and some build of serde_json
InitEngine ==
  /\ Started
  /\ budget = [frames |-> 0, messages |-> 0, memberops |-> 0, docs |-> Reqs]
  /\ eng_req \in [ops : Operations, root : Roots, on_type : {"Query"}]
  /\ eng_env \in [nseeds : 0..MaxSeeds, failing : {{}, {"b"}},
                  preserve_order : BOOLEAN]
  /\ eng_pc = "resolve"
  /\ eng_op = 0
  /\ eng_stack = <<>>
  /\ eng_res = <<>>
  /\ eng_data = <<>>
  /\ eng_err = <<>>
  /\ eng_calls = <<>>
  /\ PrepareIdle
  /\ ConvertIdle
  /\ SchemaIdle

\* what resolve_loop_next and the loop after it leave alone
fanoutVars == <<storeVars, trackerVars, tracker_mailbox, tracker_panicked, wsVars,
                last, retired, arrived, nframes, nmemberops, budget, prepVars,
                convVars, external_types>>

\* resolve, for queree in queries: the PendingQuery of the next operation
\* and the first frame of resolve_loop_next, which holds the root
ResolveStartQuery ==
  /\ eng_pc = "resolve"
  /\ eng_op < Len(eng_req.ops)
  /\ eng_op' = eng_op + 1
  /\ eng_stack' = <<[ResolutionContext(eng_req.on_type, "", eng_req.ops[eng_op + 1])
                      EXCEPT !.data = eng_req.root]>>
  /\ eng_pc' = "loop"
  /\ UNCHANGED <<eng_req, eng_env, eng_res, eng_data, eng_err, eng_calls,
                 fanoutVars>>

\* resolve_loop_next: one iteration of the 'outer loop, or, when stack.pop()
\* finds no frame, the Ok(BTreeMap::new()) after the loop
ResolveLoopStep ==
  /\ eng_pc = "loop"
  /\ IF eng_stack = <<>>
     THEN /\ eng_res' = <<>>
          /\ eng_pc' = "collect"
          /\ UNCHANGED <<eng_stack, eng_data, eng_err, eng_calls>>
     ELSE
     LET stack == SubSeq(eng_stack, 1, Len(eng_stack) - 1)
         out == field_loop(eng_stack[Len(eng_stack)])
         res_ctx == out.ctx
     IN /\ eng_calls' = eng_calls \o out.calls
        /\ CASE out.kind = "err" ->
               /\ eng_pc' = "failed"
               /\ eng_stack' = <<>>
               /\ eng_res' = <<>>
               /\ eng_data' = <<>>
               /\ eng_err' = <<out.err>>
          [] out.kind = "panic" ->
               /\ eng_pc' = "panicked"
               /\ eng_stack' = stack
               /\ UNCHANGED <<eng_res, eng_data, eng_err>>
          [] out.kind = "Type" ->
               LET ctx == [ResolutionContext(out.value.gql_type, out.field.name,
                                             out.field.fields)
                             EXCEPT !.data = out.value.initial]
               IN /\ eng_stack' = stack \o <<res_ctx, ctx>>
                  /\ UNCHANGED <<eng_pc, eng_res, eng_data, eng_err>>
          [] out.kind = "TypeList" ->
               LET parent_index == Len(stack)
                   parent == [res_ctx EXCEPT !.data =
                                map_insert(@, out.field.name, GqlList(<<>>))]
                   children == [i \in DOMAIN out.value.initial |->
                                  set_list(ResolutionContext(out.value.gql_type,
                                                             out.field.name,
                                                             out.field.fields),
                                           parent_index, out.value.initial[i])]
               IN /\ eng_stack' = stack \o <<parent>> \o children
                  /\ UNCHANGED <<eng_pc, eng_res, eng_data, eng_err>>
          [] out.kind = "complete" ->
               IF stack = <<>>
               THEN /\ eng_res' = res_ctx.data
                    /\ eng_stack' = <<>>
                    /\ eng_pc' = "collect"
                    /\ UNCHANGED <<eng_data, eng_err>>
               ELSE IF res_ctx.in_list # <<>>
               THEN LET slot == res_ctx.in_list[1] + 1
                    IN IF /\ slot \in DOMAIN stack
                          /\ res_ctx.map_key \in DOMAIN stack[slot].data
                          /\ stack[slot].data[res_ctx.map_key].kind = "List"
                       THEN /\ eng_stack' =
                                 [stack EXCEPT ![slot].data[res_ctx.map_key].v =
                                    Append(@, GqlObject(res_ctx.data))]
                            /\ UNCHANGED <<eng_pc, eng_res, eng_data, eng_err>>
                       ELSE /\ eng_pc' = "panicked"
                            /\ eng_stack' = stack
                            /\ UNCHANGED <<eng_res, eng_data, eng_err>>
               ELSE /\ eng_stack' =
                         [stack EXCEPT ![Len(stack)].data =
                            map_insert(@, res_ctx.map_key, GqlObject(res_ctx.data))]
                    /\ UNCHANGED <<eng_pc, eng_res, eng_data, eng_err>>
  /\ UNCHANGED <<eng_req, eng_env, eng_op, fanoutVars>>

\* resolve: the loop over the operation's fields after resolve_loop_next
\* returned, then the next operation, or Ok(JsonValue::Object(data))
ResolveCollectFields ==
  /\ eng_pc = "collect"
  /\ LET r == collect_fields(eng_req.ops[eng_op], eng_res, eng_data)
     IN /\ eng_data' = r.data
        /\ eng_res' = r.res
        /\ eng_pc' = IF r.panic THEN "panicked"
                     ELSE IF eng_op < Len(eng_req.ops) THEN "resolve"
                     ELSE IF eng_op < Len(queries) THEN "lower"
                     ELSE "done"
  /\ UNCHANGED <<eng_req, eng_env, eng_op, eng_stack, eng_err, eng_calls,
                 fanoutVars>>

NextEngine ==
  \/ ResolveStartQuery
  \/ ResolveLoopStep
  \/ ResolveCollectFields

SpecEngine == InitEngine /\ [][NextEngine]_vars

\* ================================================= operation preparation

MaxVarDefs == 1   \* variable definitions of an operation
MaxDocOps == 2    \* operations of a document

JsonNull == [kind |-> "null", v |-> <<>>]
JsonNumber(n) == [kind |-> "number", v |-> n]

\* serde_json's number: PosInt(u64), NegInt(i64) or Float(f64). The 64 bits
\* of an integer are four limbs of 16 bits, the most significant first, in
\* two's complement for NegInt; a float is the four limbs of its 64 bits
PosInt(limbs) == [class |-> "PosInt", limbs |-> limbs]
NegInt(limbs) == [class |-> "NegInt", limbs |-> limbs]
Float(f) == [class |-> "Float", limbs |-> f]

\* Number::is_u64, Number::is_i64
is_u64(n) == n.class = "PosInt"
is_i64(n) == \/ n.class = "NegInt"
             \/ n.class = "PosInt" /\ n.limbs[1] < 32768

\* Number::as_i64: <<>> for None
as_i64(n) == IF is_i64(n) THEN <<n.limbs>> ELSE <<>>

\* f as i32: the low 32 bits of an i64, read as two's complement
as_i32(limbs) ==
  IF limbs[3] >= 32768 THEN (limbs[3] - 65536) * 65536 + limbs[4]
  ELSE limbs[3] * 65536 + limbs[4]

\* the value json_to_gql never returns: the unwrap of None panicked
Panic == [kind |-> "panic", v |-> <<>>]

\* execution::json_to_gql
RECURSIVE json_to_gql(_)
json_to_gql(value) ==
  CASE value.kind = "null" -> GqlNull
    [] value.kind = "bool" -> GqlBoolean(value.v)
    [] value.kind = "number" ->
         IF is_u64(value.v) \/ is_i64(value.v)
         THEN IF as_i64(value.v) = <<>> THEN Panic
              ELSE GqlInt(as_i32(as_i64(value.v)[1]))
         ELSE GqlFloat(value.v.limbs)
    [] value.kind = "string" -> GqlString(value.v)
    [] value.kind = "array" ->
         LET items == [i \in DOMAIN value.v |-> json_to_gql(value.v[i])]
         IN IF \E i \in DOMAIN items : items[i].kind = "panic" THEN Panic
            ELSE GqlList(items)
    [] value.kind = "object" ->
         LET keys == {value.v[i].key : i \in DOMAIN value.v}
             at(k) == CHOOSE i \in DOMAIN value.v : value.v[i].key = k
             bmap == [k \in keys |-> json_to_gql(value.v[at(k)].value)]
         IN IF \E k \in keys : bmap[k].kind = "panic" THEN Panic
            ELSE GqlObject(bmap)

\* execution::naive_check_var_type, arm by arm
RECURSIVE naive_check_var_type(_, _)
naive_check_var_type(var_type, var_value) ==
  IF var_value.kind = "Variable" THEN FALSE
  ELSE IF type_kind(var_type) = "NamedType" /\ var_value.kind = "Null" THEN TRUE
  ELSE IF type_kind(var_type) = "ListType" /\ var_value.kind = "Null" THEN TRUE
  ELSE IF type_kind(var_type) = "NamedType" /\ var_value.kind = "String"
          /\ var_type.name = "String" THEN TRUE
  ELSE IF type_kind(var_type) = "NamedType" /\ var_value.kind = "Float"
          /\ var_type.name = "Float" THEN TRUE
  ELSE IF type_kind(var_type) = "NamedType" /\ var_value.kind = "Int"
          /\ var_type.name = "Integer" THEN TRUE
  ELSE IF type_kind(var_type) = "NamedType" /\ var_value.kind = "Boolean"
          /\ var_type.name = "Boolean" THEN TRUE
  ELSE IF type_kind(var_type) = "NamedType" /\ var_value.kind = "Enum" THEN TRUE
  ELSE IF type_kind(var_type) = "NamedType" /\ var_value.kind = "Object" THEN TRUE
  ELSE IF type_kind(var_type) = "NonNullType"
       THEN /\ var_value.kind # "Null"
            /\ naive_check_var_type(inner_type(var_type), var_value)
  ELSE IF type_kind(var_type) = "ListType" /\ var_value.kind = "List"
       THEN IF Len(var_value.v) = 0 THEN TRUE
            ELSE naive_check_var_type(inner_type(var_type), var_value.v[1])
  ELSE FALSE

\* query::VariableDefinition; default_value is <<>> for None
VariableDefinition(name, var_type, default_value) ==
  [name |-> name, var_type |-> var_type, default_value |-> default_value]

\* query::Directive; arguments is the Vec of (name, value) pairs
Directive(name, arguments) == [name |-> name, arguments |-> arguments]

\* query::Selection: the variants Field and FragmentSpread, the latter with
\* the fragment's name under name; arguments is the Vec of (name, value)
\* pairs
Selection(sel, name, arguments, directives, selection_set) ==
  [sel |-> sel, name |-> name, arguments |-> arguments,
   directives |-> directives, selection_set |-> selection_set]

\* query::Field without directives and without a selection set
Field(name, arguments) == Selection("Field", name, arguments, <<>>, <<>>)

\* query::FragmentSpread
FragmentSpread(fragment_name) ==
  Selection("FragmentSpread", fragment_name, <<>>, <<>>, <<>>)

\* query::FragmentDefinition
FragmentDefinition(name, selection_set) ==
  [kind |-> "Fragment", name |-> name, selection_set |-> selection_set]

\* query::OperationDefinition: kind is SelectionSet for the shorthand
\* { ... }, which has no directives and no variable definitions
OperationDefinition(kind, directives, variable_definitions, selection_set) ==
  [kind |-> kind, directives |-> directives,
   variable_definitions |-> variable_definitions, selection_set |-> selection_set]

\* the types a variable is declared with
VarTypes ==
  LET named == {NamedType(n) : n \in {"String", "Int", "Float", "Boolean", "Thing"}}
  IN named \cup {NonNullType(t) : t \in named} \cup {ListType(NamedType("String"))}

VarDefinitions ==
  {VariableDefinition("foo", t, d) : t \in VarTypes, d \in {<<>>, <<GqlString("dflt")>>}}

\* the values a request gives a variable
VarValues ==
  <<JsonString("Hello"), JsonNumber(PosInt(<<0, 0, 0, 6>>)),
    JsonNumber(Float(<<16376, 0, 0, 0>>)), JsonBool(TRUE), JsonNull,
    JsonObject(<<>>), JsonArray(<<>>), JsonArray(<<JsonString("x")>>)>>

\* GqlRequest.variables: None, a value that is no object, or an object
RequestVariables ==
  <<<<>>, <<JsonArray(<<>>)>>, <<JsonObject(<<>>)>>,
    <<JsonObject(<<JsonEntry("bar", JsonNumber(PosInt(<<0, 0, 0, 6>>)))>>)>>,
    <<JsonObject(<<JsonEntry("bar", JsonNumber(PosInt(<<0, 0, 0, 6>>))),
                   JsonEntry("foo", JsonString("Hello"))>>)>>>>
  \o [i \in DOMAIN VarValues |-> <<JsonObject(<<JsonEntry("foo", VarValues[i])>>)>>]

\* the first operation of a document: one field a, with no argument, a
\* literal argument or a variable as argument
FirstOps ==
  LET sels == {<<Field("a", args)>> :
                 args \in {<<>>, <<<<"x", GqlString("lit")>>>>,
                           <<<<"x", GqlVariable("foo")>>>>}}
  IN {OperationDefinition("SelectionSet", <<>>, <<>>, sel) : sel \in sels} \cup
     {OperationDefinition(k, d, vd, sel) :
        k \in {"Query", "Mutation", "Subscription"}, d \in {<<>>, <<"live">>},
        vd \in {<<>>} \cup SeqsUpTo(VarDefinitions, MaxVarDefs), sel \in sels}

\* the operations after the first: one field, b or the field zz that the
\* schema does not have
OtherOps ==
  LET sels == {<<Field(n, <<>>)>> : n \in {"b", "zz"}}
  IN {OperationDefinition("SelectionSet", <<>>, <<>>, sel) : sel \in sels} \cup
     {OperationDefinition(k, d, <<>>, sel) :
        k \in {"Query", "Mutation", "Subscription"}, d \in {<<>>, <<"live">>},
        sel \in sels}

\* query::Document (operations only)
Documents ==
  {<<o>> \o rest : o \in FirstOps,
                   rest \in {<<>>} \cup SeqsUpTo(OtherOps, MaxDocOps - 1)}

\* GqlRunningQuery::get_var_defs
RECURSIVE get_var_defs(_)
get_var_defs(doc) ==
  IF doc = <<>> THEN <<>>
  ELSE (IF Head(doc).kind \in {"Query", "Mutation", "Subscription"}
        THEN Head(doc).variable_definitions ELSE <<>>) \o get_var_defs(Tail(doc))

\* the HashMap parse_variables fills from get_var_defs
RECURSIVE var_def_map(_, _)
var_def_map(defs, map) ==
  IF defs = <<>> THEN map
  ELSE var_def_map(Tail(defs), map_insert(map, Head(defs).name, Head(defs)))

\* HashMap::remove
map_remove(map, key) == [k \in DOMAIN map \ {key} |-> map[k]]

\* defaults binding Null to a declared variable that has neither a value
\* nor a default
defaults_lenient(var_defs, bound, chk) ==
  [kind |-> "ok", checks |-> chk,
   variables |-> [k \in DOMAIN bound \cup DOMAIN var_defs |->
                    IF k \in DOMAIN var_defs
                    THEN IF var_defs[k].default_value = <<>> THEN GqlNull
                         ELSE var_defs[k].default_value[1]
                    ELSE bound[k]]]

\* parse_variables, the loop over the declared variables left without a value
defaults(var_defs, bound, chk) ==
  IF \E k \in DOMAIN var_defs : var_defs[k].default_value = <<>>
  THEN [kind |-> "err", variables |-> <<>>, checks |-> chk]
  ELSE [kind |-> "ok", checks |-> chk,
        variables |-> [k \in DOMAIN bound \cup DOMAIN var_defs |->
                         IF k \in DOMAIN var_defs THEN var_defs[k].default_value[1]
                         ELSE bound[k]]]

\* parse_variables, the loop over the entries of the request's variables
RECURSIVE supplied(_, _, _, _)
supplied(entries, var_defs, bound, chk) ==
  IF entries = <<>> THEN defaults(var_defs, bound, chk)
  ELSE LET var_name == Head(entries).key
           gql_var_value == json_to_gql(Head(entries).value)
       IN IF gql_var_value.kind = "panic"
          THEN [kind |-> "panic", variables |-> <<>>, checks |-> chk]
          ELSE IF var_name \notin DOMAIN var_defs
          THEN [kind |-> "err", variables |-> <<>>, checks |-> chk]
          ELSE LET var_type == var_defs[var_name].var_type
                   ok == naive_check_var_type(var_type, gql_var_value)
                   chk1 == Append(chk, [var_type |-> var_type,
                                        var_value |-> gql_var_value, ok |-> ok])
               IN IF ~ok THEN [kind |-> "err", variables |-> <<>>, checks |-> chk1]
                  ELSE supplied(Tail(entries), map_remove(var_defs, var_name),
                                map_insert(bound, var_name, gql_var_value), chk1)

\* GqlRunningQuery::parse_variables: Ok with self.variables, Err(Variable),
\* or a panic of json_to_gql
parse_variables(doc, var_values) ==
  LET var_defs == var_def_map(get_var_defs(doc), <<>>)
  IN IF DOMAIN var_defs = {} /\ var_values = <<>>
     THEN [kind |-> "ok", variables |-> <<>>, checks |-> <<>>]
     ELSE IF var_values # <<>> /\ var_values[1].kind # "object"
     THEN [kind |-> "err", variables |-> <<>>, checks |-> <<>>]
     ELSE supplied(IF var_values = <<>> THEN <<>> ELSE var_values[1].v,
                   var_defs, <<>>, <<>>)

\* get_queries, get_mutations, get_subscriptions
operations_of(doc, kind) == SelectSeq(doc, LAMBDA d : d.kind = kind)

\* the calls of get_fields and process_field the stack of the thread has
\* room for
MaxCallDepth == 6

\* GqlRunningQuery::parse_fragments: the fragment definitions by name, a
\* later definition of a name replacing an earlier one
RECURSIVE parse_fragments(_)
parse_fragments(doc) ==
  IF doc = <<>> THEN <<>>
  ELSE LET item == doc[Len(doc)]
           before == parse_fragments(SubSeq(doc, 1, Len(doc) - 1))
       IN IF item.kind = "Fragment" THEN map_insert(before, item.name, item)
          ELSE before

\* the results of the steps of the lowering: Ok(fields), Err(err), or the
\* overflow of the stack
LowOk(fields) == [kind |-> "ok", err |-> "", fields |-> fields]
LowErr(err) == [kind |-> "err", err |-> err, fields |-> <<>>]
LowOverflow == [kind |-> "overflow", err |-> "", fields |-> <<>>]

\* the first of the results that is not Ok, or Ok with the fields of all
RECURSIVE collect(_)
collect(results) ==
  IF results = <<>> THEN LowOk(<<>>)
  ELSE IF Head(results).kind # "ok" THEN Head(results)
  ELSE LET rest == collect(Tail(results))
       IN IF rest.kind # "ok" THEN rest
          ELSE LowOk(Head(results).fields \o rest.fields)

\* GqlRunningQuery::get_fields for a field and for a fragment spread, in a
\* call at the given depth of the stack; exec.fragments is passed as exec
RECURSIVE get_fields(_, _, _, _)
get_fields(exec, selection, on_type, depth) ==
  IF depth > MaxCallDepth THEN LowOverflow
  ELSE IF selection.sel = "Field" THEN LowOk(<<selection>>)
  ELSE IF selection.name \notin DOMAIN exec THEN LowErr("Fragment")
  ELSE LET items == exec[selection.name].selection_set
       IN collect([i \in DOMAIN items |->
                     get_fields(exec, items[i], on_type, depth + 1)])

\* GqlRunningQuery::fields_from_selectionset
fields_from_selectionset(exec, set, on_type, depth) ==
  collect([i \in DOMAIN set |-> get_fields(exec, set[i], on_type, depth + 1)])

\* get_initial_items, one of its three branches
initial_items(exec, ops, on_type) ==
  LET items == collect([i \in DOMAIN ops |->
                  IF Len(ops[i].directives) > 0 THEN LowErr("Directive")
                  ELSE LET fs == fields_from_selectionset(
                                   exec, ops[i].selection_set, on_type, 1)
                       IN IF fs.kind = "ok" THEN LowOk(<<fs.fields>>) ELSE fs])
  IN IF items.kind # "ok" THEN [kind |-> items.kind, err |-> items.err]
     ELSE [kind |-> "ok", starting_type |-> on_type, items |-> items.fields]

\* GqlRunningQuery::get_initial_items
get_initial_items(exec, doc) ==
  LET qs == operations_of(doc, "Query")
      ms == operations_of(doc, "Mutation")
      ss == operations_of(doc, "Subscription")
  IN IF Len(qs) > 0 /\ Len(ms) = 0 /\ Len(ss) = 0 THEN initial_items(exec, qs, "Query")
     ELSE IF Len(ms) > 0 /\ Len(qs) = 0 /\ Len(ss) = 0
     THEN initial_items(exec, ms, "Mutation")
     ELSE IF Len(ss) > 0 /\ Len(qs) = 0 /\ Len(ms) = 0
     THEN initial_items(exec, ss, "Subscription")
     ELSE [kind |-> "err", err |-> "Field"]

\* the fields of the object types Query, Mutation, Subscription and Node
RootFields == {"a", "b", "one", "kids"}

\* the fold of a field's arguments into a BTreeMap
RECURSIVE arguments_map(_, _)
arguments_map(arguments, map) ==
  IF arguments = <<>> THEN map
  ELSE arguments_map(Tail(arguments),
                     map_insert(map, Head(arguments)[1], Head(arguments)[2]))

\* the object types of both catalogs, and the type of each of their fields
ObjectTypes == {"Query", "Mutation", "Subscription", "Node"}
field_type_of(name) ==
  CASE name \in {"a", "b"} -> NamedType("String")
    [] name = "one" -> NamedType("Node")
    [] name = "kids" -> ListType(NamedType("Node"))

\* the directive definitions of the catalogs: tagged(as: String!) of the
\* external one; the internal one defines none that these documents use
DirectiveDefinitions ==
  <<[name |-> "tagged",
     arguments |-> <<[name |-> "as", value_type |-> NonNullType(NamedType("String"))]>>]>>

\* the value of the argument a directive definition names, Null when the
\* directive lacks it
argument_value(args, name) ==
  IF \E i \in DOMAIN args : args[i][1] = name
  THEN args[CHOOSE i \in DOMAIN args : args[i][1] = name][2]
  ELSE GqlNull

\* GqlSchema::validate_directive: Err(Directive) when neither catalog
\* defines the directive; naive_check_var_type is called for every argument
\* of the definition and what it returns is dropped
validate_directive(name, args) ==
  IF ~contains_key(DirectiveDefinitions, name) THEN LowErr("Directive")
  ELSE LET directive == get(DirectiveDefinitions, name)
           dropped == [i \in DOMAIN directive.arguments |->
                         naive_check_var_type(
                           directive.arguments[i].value_type,
                           argument_value(args, directive.arguments[i].name))]
       IN LowOk(<<>>)

\* process_field, the loop to the named type
RECURSIVE final_type(_)
final_type(cur_type) ==
  IF type_kind(cur_type) = "NamedType" THEN cur_type.name
  ELSE final_type(inner_type(cur_type))

\* GqlSchema::process_field in a call at the given depth of the stack: the
\* SimpleFields of the field's selection set
RECURSIVE process_field(_, _, _, _)
process_field(exec, field, on_type, depth) ==
  IF depth > MaxCallDepth THEN LowOverflow
  ELSE
  LET fields == fields_from_selectionset(exec, field.selection_set, on_type, depth)
  IN IF fields.kind # "ok" THEN fields
     ELSE IF on_type \notin ObjectTypes THEN LowErr("Type")
     ELSE IF field.name \notin {"__typename", "__type", "__schema"} \cup RootFields
     THEN LowErr("Field")
     ELSE LET field_type ==
                CASE field.name = "__typename" -> NamedType("String")
                  [] field.name = "__type" -> NamedType("__Type")
                  [] field.name = "__schema" -> NamedType("__Schema")
                  [] OTHER -> field_type_of(field.name)
              lowered(f) ==
                LET checked == collect([i \in DOMAIN f.directives |->
                                 validate_directive(f.directives[i].name,
                                                    f.directives[i].arguments)])
                    below == process_field(exec, f, final_type(field_type), depth + 1)
                IN IF checked.kind # "ok" THEN checked
                   ELSE IF below.kind # "ok" THEN below
                   ELSE LowOk(<<[name |-> f.name,
                                 arguments |-> arguments_map(f.arguments, <<>>),
                                 fields |-> below.fields]>>)
          IN collect([i \in DOMAIN fields.fields |-> lowered(fields.fields[i])])

\* resolve: the fields of the PendingQuery of one queree
pending_query(exec, initial_fields, on_type) ==
  collect([i \in DOMAIN initial_fields |->
    LET f == initial_fields[i]
        below == process_field(exec, f, on_type, 1)
    IN IF below.kind # "ok" THEN below
       ELSE LowOk(<<[name |-> f.name,
                     arguments |-> arguments_map(f.arguments, <<>>),
                     fields |-> below.fields]>>)])

\* a call of resolve with a request whose query text parses to the document
InitPrepare ==
  /\ Started
  /\ budget = [frames |-> 0, messages |-> 0, memberops |-> 0, docs |-> Reqs]
  /\ eng_req = [ops |-> <<>>, root |-> <<>>, on_type |-> "Query"]
  /\ eng_env = [nseeds |-> 0, failing |-> {}, preserve_order |-> FALSE]
  /\ eng_pc = "prepare"
  /\ eng_op = 0
  /\ eng_stack = <<>>
  /\ eng_res = <<>>
  /\ eng_data = <<>>
  /\ eng_err = <<>>
  /\ eng_calls = <<>>
  /\ \E doc \in Documents, i \in DOMAIN RequestVariables :
       prep_req = [doc |-> doc, variables |-> RequestVariables[i]]
  /\ variables = <<>>
  /\ starting_type = "Query"
  /\ queries = <<>>
  /\ checks = <<>>
  /\ fragments = <<>>
  /\ ConvertIdle
  /\ SchemaIdle

\* resolve up to get_initial_items: parse_variables, then get_initial_items
ResolvePrepare ==
  /\ eng_pc = "prepare"
  /\ LET pv == parse_variables(prep_req.doc, prep_req.variables)
         exec == parse_fragments(prep_req.doc)
         gi == get_initial_items(exec, prep_req.doc)
     IN /\ checks' = pv.checks
        /\ fragments' = exec
        /\ IF pv.kind = "panic"
           THEN /\ eng_pc' = "panicked"
                /\ UNCHANGED <<eng_err, variables, starting_type, queries>>
           ELSE IF pv.kind = "err"
           THEN /\ eng_pc' = "failed"
                /\ eng_err' = <<"Variable">>
                /\ UNCHANGED <<variables, starting_type, queries>>
           ELSE /\ variables' = pv.variables
                /\ IF gi.kind = "overflow"
                   THEN /\ eng_pc' = "overflowed"
                        /\ UNCHANGED <<eng_err, starting_type, queries>>
                   ELSE IF gi.kind = "err"
                   THEN /\ eng_pc' = "failed"
                        /\ eng_err' = <<gi.err>>
                        /\ UNCHANGED <<starting_type, queries>>
                   ELSE /\ eng_pc' = "lower"
                        /\ starting_type' = gi.starting_type
                        /\ queries' = gi.items
                        /\ UNCHANGED eng_err
  /\ UNCHANGED <<eng_req, eng_env, eng_op, eng_stack, eng_res, eng_data, eng_calls,
                 prep_req, storeVars, trackerVars, tracker_mailbox,
                 tracker_panicked, wsVars, last, retired, arrived, nframes,
                 nmemberops, budget, convVars, external_types>>

\* resolve, for queree in queries: the fields of the PendingQuery
ResolveLowerQuery ==
  /\ eng_pc = "lower"
  /\ eng_op < Len(queries)
  /\ LET low == pending_query(fragments, queries[eng_op + 1], starting_type)
     IN IF low.kind = "overflow"
        THEN /\ eng_pc' = "overflowed"
             /\ UNCHANGED <<eng_req, eng_err, eng_res, eng_data>>
        ELSE IF low.kind = "err"
        THEN /\ eng_pc' = "failed"
             /\ eng_err' = <<low.err>>
             /\ eng_res' = <<>>
             /\ eng_data' = <<>>
             /\ UNCHANGED eng_req
        ELSE /\ eng_pc' = "resolve"
             /\ eng_req' = [eng_req EXCEPT !.ops = Append(@, low.fields),
                                           !.on_type = starting_type]
             /\ UNCHANGED <<eng_err, eng_res, eng_data>>
  /\ UNCHANGED <<eng_env, eng_op, eng_stack, eng_calls, fanoutVars>>

NextPrepare ==
  \/ ResolvePrepare
  \/ ResolveLowerQuery
  \/ ResolveStartQuery
  \/ ResolveLoopStep
  \/ ResolveCollectFields

SpecPrepare == InitPrepare /\ [][NextPrepare]_vars

\* ------------------------------------ lowering: directives and fragments

\* the directives of a field: none, tagged with its argument, tagged
\* without its argument as (which is String!), and a directive that no
\* catalog defines
FieldDirectives ==
  {<<>>, <<Directive("tagged", <<<<"as", GqlString("x")>>>>)>>,
   <<Directive("tagged", <<>>)>>, <<Directive("nope", <<>>)>>}

\* the selections below a field: a scalar field with directives or the
\* spread of a fragment; the document defines the fragments F and G
LeafSelections ==
  {Selection("Field", "a", <<>>, d, <<>>) : d \in FieldDirectives} \cup
  {FragmentSpread(n) : n \in {"F", "G", "H"}}

\* the selections of an operation: those, and the field one with
\* directives and one selection below it
TopSelections ==
  LeafSelections \cup
  {Selection("Field", "one", <<>>, d, <<below>>) :
     d \in FieldDirectives, below \in LeafSelections}

\* the selection sets of the fragments F and G
FragmentBodies ==
  [F : {<<Field("a", <<>>)>>, <<FragmentSpread("F")>>, <<FragmentSpread("G")>>,
        <<Selection("Field", "one", <<>>, <<>>, <<FragmentSpread("F")>>)>>,
        <<Selection("Field", "a", <<>>, <<Directive("nope", <<>>)>>, <<>>)>>},
   G : {<<Field("b", <<>>)>>, <<FragmentSpread("F")>>,
        <<Field("b", <<>>), FragmentSpread("G")>>}]

\* query::Document: one operation query { ... } and the fragments F and G
LowerDocuments ==
  {<<OperationDefinition("Query", <<>>, <<>>, <<sel>>),
     FragmentDefinition("F", body.F), FragmentDefinition("G", body.G)>> :
     sel \in TopSelections, body \in FragmentBodies}

\* a call of resolve with a request without variables whose query text
\* parses to such a document
InitLower ==
  /\ Started
  /\ budget = [frames |-> 0, messages |-> 0, memberops |-> 0, docs |-> Reqs]
  /\ eng_req = [ops |-> <<>>, root |-> <<>>, on_type |-> "Query"]
  /\ eng_env = [nseeds |-> 0, failing |-> {}, preserve_order |-> FALSE]
  /\ eng_pc = "prepare"
  /\ eng_op = 0
  /\ eng_stack = <<>>
  /\ eng_res = <<>>
  /\ eng_data = <<>>
  /\ eng_err = <<>>
  /\ eng_calls = <<>>
  /\ \E doc \in LowerDocuments : prep_req = [doc |-> doc, variables |-> <<>>]
  /\ variables = <<>>
  /\ starting_type = "Query"
  /\ queries = <<>>
  /\ checks = <<>>
  /\ fragments = <<>>
  /\ ConvertIdle
  /\ SchemaIdle

SpecLower == InitLower /\ [][NextPrepare]_vars

\* ======================================= JSON numbers there and back

MaxLow == 1   \* the small values a limb of a JSON number takes

\* the values of a limb: the small ones and those around the sign bit
LimbValues == (0..MaxLow) \cup {32767, 32768, 65535}

\* the JSON numbers serde_json parses: PosInt for an integer that is not
\* negative, NegInt for a negative one, Float for the others (here 1.5 and
\* -2.0)
JsonNumbers ==
  {PosInt(l) : l \in [1..4 -> LimbValues]} \cup
  {NegInt(l) : l \in {m \in [1..4 -> LimbValues] : m[1] >= 32768}} \cup
  {Float(<<16376, 0, 0, 0>>), Float(<<49152, 0, 0, 0>>)}

\* a JSON number is to be converted to a GqlValue and back
InitConvert ==
  /\ Started
  /\ budget = [frames |-> 0, messages |-> 0, memberops |-> 0, docs |-> Reqs]
  /\ EngineIdle
  /\ PrepareIdle
  /\ SchemaIdle
  /\ conv_in \in JsonNumbers
  /\ conv_pc = "json"
  /\ conv_gql = GqlNull
  /\ conv_out = JsonNull

\* json_to_gql(JsonValue::Number(n))
ConvertJsonToGql ==
  /\ conv_pc = "json"
  /\ LET value == json_to_gql(JsonNumber(conv_in))
     IN IF value.kind = "panic"
        THEN conv_pc' = "panicked" /\ UNCHANGED conv_gql
        ELSE conv_pc' = "gql" /\ conv_gql' = value
  /\ UNCHANGED <<conv_in, conv_out, storeVars, trackerVars, tracker_mailbox,
                 tracker_panicked, wsVars, last, retired, arrived, nframes,
                 nmemberops, budget, engineVars, prepVars, external_types>>

\* gql_to_json of the value json_to_gql returned
ConvertGqlToJson ==
  /\ conv_pc = "gql"
  /\ conv_out' = gql_to_json(conv_gql)
  /\ conv_pc' = "done"
  /\ UNCHANGED <<conv_in, conv_gql, storeVars, trackerVars, tracker_mailbox,
                 tracker_panicked, wsVars, last, retired, arrived, nframes,
                 nmemberops, budget, engineVars, prepVars, external_types>>

NextConvert ==
  \/ ConvertJsonToGql
  \/ ConvertGqlToJson

SpecConvert == InitConvert /\ [][NextConvert]_vars

\* ========================================================= introspection

MaxFields == 2   \* fields of an object type or of an input object type

\* the names of the fields of a definition, by position
FieldNames == <<"f", "g", "h">>

\* the types of the fields of an object type and of an input object type;
\* Color is an enum type, In an input object type, Query an object type
ObjectFieldTypes ==
  {NamedType("String"), NonNullType(NamedType("Int")),
   ListType(NamedType("Query")), NamedType("Color")}
InputFieldTypes ==
  {NamedType("String"), NonNullType(NamedType("Int")),
   ListType(NamedType("In")), NamedType("Color")}

\* schema::ObjectType and schema::InputObjectType with their fields
ObjectType(name, types) ==
  [name |-> name,
   fields |-> [i \in DOMAIN types |->
                 [name |-> FieldNames[i], field_type |-> types[i]]]]
InputObjectType(name, types) ==
  [name |-> name,
   fields |-> [i \in DOMAIN types |->
                 [name |-> FieldNames[i], value_type |-> types[i]]]]

\* the object type Foo { f: String, g: Int }
Foo == ObjectType("Foo", <<NamedType("String"), NamedType("Int")>>)

\* schema::EnumType
Color == [name |-> "Color", values |-> <<"RED", "GREEN">>]

\* SchemaTypes::new for a schema document with the object type Query, with
\* or without Foo, the input object type In and the enum type Color; every
\* named type of a field is defined
Schemas ==
  LET uses_color(types) == \E k \in DOMAIN types : types[k].name = "Color"
      choices ==
        {c \in [foo : {<<>>, <<Foo>>},
                q : SeqsUpTo(ObjectFieldTypes, MaxFields),
                i : {<<>>} \cup SeqsUpTo(InputFieldTypes, MaxFields),
                en : {<<>>, <<Color>>}] :
           (uses_color(c.q) \/ uses_color(c.i)) => c.en # <<>>}
  IN {[objects |-> c.foo \o <<ObjectType("Query", c.q)>>,
       input_types |-> IF c.i = <<>> THEN <<>> ELSE <<InputObjectType("In", c.i)>>,
       enums |-> c.en] : c \in choices}

\* the selection of a type reference: kind, name and two levels of ofType
TypeRef ==
  <<SimpleField("kind", <<>>), SimpleField("name", <<>>),
    SimpleField("ofType",
      <<SimpleField("kind", <<>>), SimpleField("name", <<>>),
        SimpleField("ofType",
          <<SimpleField("kind", <<>>), SimpleField("name", <<>>)>>)>>)>>

\* the introspection query { __schema { types { kind name fields { name
\* type {...} } inputFields { name type {...} } enumValues { name } } } }
IntrospectionQuery ==
  <<SimpleField("__schema",
      <<SimpleField("types",
          <<SimpleField("kind", <<>>), SimpleField("name", <<>>),
            SimpleField("fields",
              <<SimpleField("name", <<>>), SimpleField("type", TypeRef)>>),
            SimpleField("inputFields",
              <<SimpleField("name", <<>>), SimpleField("type", TypeRef)>>),
            SimpleField("enumValues", <<SimpleField("name", <<>>)>>)>>)>>)>>

\* a call of resolve with the introspection query against a schema
InitIntrospect ==
  /\ Started
  /\ budget = [frames |-> 0, messages |-> 0, memberops |-> 0, docs |-> Reqs]
  /\ eng_req = [ops |-> <<IntrospectionQuery>>, root |-> <<>>, on_type |-> "Query"]
  /\ eng_env \in [nseeds : {0}, failing : {{}}, preserve_order : BOOLEAN]
  /\ eng_pc = "resolve"
  /\ eng_op = 0
  /\ eng_stack = <<>>
  /\ eng_res = <<>>
  /\ eng_data = <<>>
  /\ eng_err = <<>>
  /\ eng_calls = <<>>
  /\ PrepareIdle
  /\ ConvertIdle
  /\ external_types \in Schemas

SpecIntrospect == InitIntrospect /\ [][NextEngine]_vars

\* GqlResponse::from over what resolve returned: data is <<>> for None
gql_response ==
  IF eng_pc = "done"
  THEN [data |-> <<JsonObject(eng_data)>>, errors |-> <<>>]
  ELSE [data |-> <<>>, errors |-> eng_err]

\* ================================================================ claims
Range(seq) == {seq[i] : i \in DOMAIN seq}
Occurrences(seq, x) == Cardinality({i \in DOMAIN seq : seq[i] = x})
Bucket(ch) == IF ch \in DOMAIN channels THEN channels[ch] ELSE <<>>
InSomeBucket(inst) == \E ch \in DOMAIN channels : inst \in Range(channels[ch])
Handled(type) == last.msg.type = type /\ ~tracker_panicked
SendsTo(inst) == {i \in DOMAIN last.sends : last.sends[i].inst = inst}

\* C1: after any sequence of register / stop / disconnect operations, every
\* channel listed in the record of an instance of the primary map has the
\* instance in its bucket.
C1_RecordChannelsHoldInstance ==
  ~tracker_panicked =>
    \A inst \in DOMAIN subscriptions :
      \A ch \in Range(subscriptions[inst].channels) : inst \in Range(Bucket(ch))

\* C2: every instance found in a channel bucket is a key of the primary map,
\* and the lookup Deliver makes for a bucket entry never fails.
C2_BucketEntriesInPrimary ==
  /\ \A ch \in DOMAIN channels : Range(channels[ch]) \subseteq DOMAIN subscriptions
  /\ last.msg.type = "MsgMessageCreated" => ~tracker_panicked

\* C2 witness: after a stop or disconnect was processed, Deliver looked
\* entries of a bucket up and sent their results.
C2_Witness ==
  /\ Handled("MsgMessageCreated")
  /\ last.sends # <<>>
  /\ retired # {}

\* C3: once StopSubscription(user, sub_id) has been processed, the instance
\* is in neither the primary map nor any bucket.
C3_StopRemovesInstance ==
  Handled("MsgSubscriptionStop") =>
    LET inst == SubscriptionInstance(last.msg.user_id, last.msg.sub_id)
    IN inst \notin DOMAIN subscriptions /\ ~InSomeBucket(inst)

\* C4: an instance of the primary map occurs exactly once in the bucket of
\* each channel of its record and in no other bucket; an instance outside
\* the primary map occurs in none.
C4_OncePerRecordChannel ==
  ~tracker_panicked =>
    \A inst \in Instances, ch \in Chans :
      Occurrences(Bucket(ch), inst) =
        IF inst \in DOMAIN subscriptions /\ ch \in Range(subscriptions[inst].channels)
        THEN 1 ELSE 0

\* C5: Deliver of an event sends nothing for an instance whose user is the
\* sender of the event.
C5_NoSelfEcho ==
  last.msg.type = "MsgMessageCreated" =>
    \A i \in DOMAIN last.sends : last.sends[i].inst.user # last.msg.sender

\* C5 witness: an event was delivered on a channel whose bucket holds an
\* instance of the sender next to an instance that was sent a result.
C5_Witness ==
  /\ Handled("MsgMessageCreated")
  /\ \E inst \in Range(Bucket(last.msg.channel)) : inst.user = last.msg.sender
  /\ last.sends # <<>>

\* C6: Deliver(c, event) sends exactly one result, tagged with its sub_id, to
\* every registered instance whose channel set contains c and whose user is
\* not the sender, and at most one result to any instance.
C6_OneResultPerInterestedInstance ==
  Handled("MsgMessageCreated") =>
    /\ \A inst \in DOMAIN subscriptions :
         (/\ last.msg.channel \in Range(subscriptions[inst].channels)
          /\ inst.user # last.msg.sender)
         => /\ Cardinality(SendsTo(inst)) = 1
            /\ \A i \in SendsTo(inst) : last.sends[i].data.id = inst.id
    /\ \A inst \in Instances : Cardinality(SendsTo(inst)) <= 1

\* C7: the event createMessage sends to the tracker carries the id the store
\* gave the persisted message, and a delivered data frame carries the id and
\* the content of a persisted message.
C7_EventCarriesStoredId ==
  /\ \A i \in DOMAIN tracker_mailbox :
       tracker_mailbox[i].type = "MsgMessageCreated" =>
         \E j \in DOMAIN messages :
           /\ messages[j].id = tracker_mailbox[i].msg_id
           /\ messages[j].content = tracker_mailbox[i].content
           /\ messages[j].channel_id = tracker_mailbox[i].channel
           /\ messages[j].sender = tracker_mailbox[i].sender
  /\ \A c \in Conns : \A i \in DOMAIN ws_data[c] :
       \E j \in DOMAIN messages :
         /\ ws_data[c][i].payload.data.message.id = format_i32(messages[j].id)
         /\ ws_data[c][i].payload.data.message.content = messages[j].content

\* C8: after StopSubscription for an instance, or Disconnect for its user,
\* was processed, no event puts a rendered result for the instance into the
\* mailbox of a running connection (which writes it as a data frame), unless
\* a later start registered the instance again.
C8_NoResultAfterStop ==
  last.msg.type = "MsgMessageCreated" =>
    \A i \in DOMAIN last.sends :
      (last.sends[i].data.has_data /\ ~ws_stopped[last.sends[i].addr])
      => last.sends[i].inst \notin retired

\* C9: whenever the actor of a connection with an identity stops (terminate
\* frame, close frame, transport drop), that step sends MsgWsDisconnected for
\* its user to the tracker.
C9_EveryEndNotifiesTracker ==
  [][\A c \in Conns :
       (conn_id[c] # None /\ ~ws_stopped[c] /\ ws_stopped'[c])
       => \E i \in DOMAIN tracker_mailbox' :
            /\ i > Len(tracker_mailbox)
            /\ tracker_mailbox'[i] = MsgWsDisconnected(conn_id[c])]_vars

\* C10: once Disconnect(user) has been processed, no instance of the user is
\* in the primary map or in any bucket.
C10_DisconnectRemovesAllOfUser ==
  Handled("MsgWsDisconnected") =>
    \A inst \in Instances :
      inst.user = last.msg.id =>
        inst \notin DOMAIN subscriptions /\ ~InSomeBucket(inst)

\* a step in which the tracker handles the message at the head of its mailbox
TrackerHandles(type) ==
  TrackerTakes(type) /\ tracker_mailbox' = Tail(tracker_mailbox)

\* C11: a StopSubscription for an instance that is not in the primary map
\* leaves the connection count, the primary map and every bucket unchanged
\* (and does not panic); so does a StopSubscription handled right after the
\* same StopSubscription: stopping twice in a row ends in the state that
\* stopping once ends in.
C11_StopIsIdempotent ==
  [][TrackerHandles("MsgSubscriptionStop") =>
       LET msg == Head(tracker_mailbox)
           inst == SubscriptionInstance(msg.user_id, msg.sub_id)
       IN (inst \notin DOMAIN subscriptions \/ last.msg = msg)
          => (UNCHANGED trackerVars /\ ~tracker_panicked')]_vars

\* a registered instance was stopped twice in a row
C11_Witness ==
  /\ Handled("MsgSubscriptionStop")
  /\ last.again
  /\ SubscriptionInstance(last.msg.user_id, last.msg.sub_id) \in DOMAIN subscriptions

\* a step in which connection c handles one frame of the given kind
WsHandles(c, frame) ==
  nframes' = nframes + 1 /\ ws_last'.conn = c /\ ws_last'.frame = frame

\* the messages the step appended to the tracker's mailbox
SentToTracker ==
  {tracker_mailbox'[i] : i \in {j \in DOMAIN tracker_mailbox' : j > Len(tracker_mailbox)}}

\* C12: a start frame on a connection without an identity closes the
\* connection, and no MsgNewSubscription is sent to the tracker for a
\* connection that has been closed: not by that frame, not by a later one.
C12_NoRegisterOnClosedConnection ==
  [][\A c \in Conns :
       /\ (WsHandles(c, "start") /\ conn_id[c] = None) => ws_closed'[c]
       /\ ws_closed'[c] =>
            ~\E m \in SentToTracker : m.type = "MsgNewSubscription" /\ m.addr = c]_vars

\* C13: after a connection_init whose token fails validation the connection
\* is closed and its actor stopped, and the frames written for that
\* connection_init do not include a connection_ack.
C13_FailedInitClosesWithoutAck ==
  (ws_last.frame = "connection_init" /\ ws_last.arg = "invalid") =>
    /\ ws_closed[ws_last.conn]
    /\ ws_stopped[ws_last.conn]
    /\ AckFrame \notin Range(ws_written[ws_last.conn])

\* C14: a text frame that does not parse is answered by exactly one error
\* frame; the identity of the connection, whether it is closed and whether
\* its actor runs stay as they were, and nothing is sent to the tracker.
C14_UnparsableOnlyAnswersError ==
  [][\A c \in Conns :
       WsHandles(c, "unparsable") =>
         /\ ws_written'[c] = <<ErrorFrame>>
         /\ UNCHANGED <<conn_id, ws_closed, ws_stopped, ws_panicked>>
         /\ SentToTracker = {}
         /\ UNCHANGED <<tracker_mailbox, trackerVars>>]_vars

\* an authenticated connection answered an unparsable frame
C14_Witness ==
  /\ ws_last.frame = "unparsable"
  /\ conn_id[ws_last.conn] # None
  /\ ws_written[ws_last.conn] = <<ErrorFrame>>
  /\ ~ws_stopped[ws_last.conn]

C17_DeliverKeepsRegistry ==
  [][TrackerHandles("MsgMessageCreated") => UNCHANGED trackerVars]_vars

\* an event was handled for a non-empty registry and a document failed
C17_Witness ==
  /\ Handled("MsgMessageCreated")
  /\ connections > 0
  /\ Bucket(last.msg.channel) # <<>>
  /\ \E i \in DOMAIN last.sends : ~last.sends[i].data.has_data

\* the data frames written to connection c for subscription id s, in order
FramesOf(c, s) == SelectSeq(ws_data[c], LAMBDA f : f.id = s)

\* the place of the first event with the given content in the order in which
\* the events arrived at the tracker (0: no such event)
ArrivalOf(content) ==
  IF \E k \in DOMAIN arrived : arrived[k].content = content
  THEN CHOOSE k \in DOMAIN arrived :
         /\ arrived[k].content = content
         /\ \A j \in DOMAIN arrived : arrived[j].content = content => k <= j
  ELSE 0

\* events can be told apart by their content
DistinctEvents ==
  \A i, j \in DOMAIN arrived : arrived[i].content = arrived[j].content => i = j

\* C16: the data frames written to a connection for one subscription id
\* each render an event that arrived, and follow each other in the order in
\* which their events arrived at the tracker.
C16_FramesInArrivalOrder ==
  DistinctEvents =>
    \A c \in Conns, s \in SubIds :
      LET frames == FramesOf(c, s)
      IN \A i, j \in DOMAIN frames :
           /\ ArrivalOf(frames[i].payload.data.message.content) > 0
           /\ i < j => ArrivalOf(frames[i].payload.data.message.content)
                        <= ArrivalOf(frames[j].payload.data.message.content)

\* one subscription of a connection was written the frames of two events
C16_Witness ==
  /\ DistinctEvents
  /\ \E c \in Conns, s \in SubIds :
       LET frames == FramesOf(c, s)
       IN \E i, j \in DOMAIN frames :
            /\ i < j
            /\ frames[i].payload.data.message.content
               # frames[j].payload.data.message.content

\* the fields selected at the top level of the request, over all operations
RECURSIVE TopFields(_)
TopFields(ops) == IF ops = <<>> THEN <<>> ELSE Head(ops) \o TopFields(Tail(ops))

\* resolve returned Ok(response)
Responded == eng_pc = "done"
Response == JsonObject(eng_data)

Selects(fields, key) == \E i \in DOMAIN fields : fields[i].name = key

\* every key of every object of the JSON value names a field of the
\* selection at its depth; the elements of an array are objects of the
\* selection of the field that holds the array
RECURSIVE KeysSelected(_, _)
KeysSelected(json, fields) ==
  CASE json.kind = "object" ->
         \A i \in DOMAIN json.v :
           /\ Selects(fields, json.v[i].key)
           /\ KeysSelected(json.v[i].value, find_field(fields, json.v[i].key).fields)
    [] json.kind = "array" -> \A i \in DOMAIN json.v : KeysSelected(json.v[i], fields)
    [] OTHER -> TRUE

\* C18: every key of every object of a response, at every depth and inside
\* lists too, names a field selected at that depth; a key that was only
\* seeded (tag, jam) is not in the response.
C18_OnlySelectedKeys ==
  Responded => KeysSelected(Response, TopFields(eng_req.ops))

\* place of the first selection of a field name
first_selected(fields, key) ==
  CHOOSE i \in DOMAIN fields :
    fields[i].name = key /\ \A j \in DOMAIN fields : fields[j].name = key => i <= j

\* the selected keys of every object of the JSON value follow each other as
\* their fields do in the selection
RECURSIVE KeysInSelectionOrder(_, _)
KeysInSelectionOrder(json, fields) ==
  CASE json.kind = "object" ->
         /\ \A i, j \in DOMAIN json.v :
              (/\ i < j
               /\ Selects(fields, json.v[i].key)
               /\ Selects(fields, json.v[j].key))
              => first_selected(fields, json.v[i].key)
                 < first_selected(fields, json.v[j].key)
         /\ \A i \in DOMAIN json.v :
              Selects(fields, json.v[i].key)
              => KeysInSelectionOrder(json.v[i].value,
                                      find_field(fields, json.v[i].key).fields)
    [] json.kind = "array" ->
         \A i \in DOMAIN json.v : KeysInSelectionOrder(json.v[i], fields)
    [] OTHER -> TRUE

\* C19: in every object of a response, at every depth, the keys are in the
\* order in which their fields are selected in the request.
C19_KeysInSelectionOrder ==
  Responded => KeysInSelectionOrder(Response, TopFields(eng_req.ops))

\* the number a seed got from its resolver: the last step of its path
seed_number(object) == LET at == object.v["tag"].v.at IN at[Len(at)]

\* every list of the value holds one object per seed, the i-th built from
\* the i-th seed
RECURSIVE ListsInSeedOrder(_)
ListsInSeedOrder(value) ==
  CASE value.kind = "List" ->
         /\ Len(value.v) = eng_env.nseeds
         /\ \A i \in DOMAIN value.v :
              seed_number(value.v[i]) = i /\ ListsInSeedOrder(value.v[i])
    [] value.kind = "Object" ->
         \A key \in DOMAIN value.v : ListsInSeedOrder(value.v[key])
    [] OTHER -> TRUE

\* C20: when resolve_loop_next has returned, every list of its result, at
\* every nesting, holds the objects built from the seeds s1..sn of the
\* TypeList in the order s1..sn.
C20_ListKeepsSeedOrder ==
  eng_pc \in {"collect", "done"} => ListsInSeedOrder(GqlObject(eng_res))

\* the recursive evaluation of a selection against an object: a seeded
\* field keeps its seed, Scalar(v) yields name -> v, Type yields name -> the
\* evaluation of the field's children against the seed, and TypeList yields
\* name -> the list of the evaluations against each seed, in seed order
RECURSIVE evaluate(_, _, _)
evaluate(on_type, fields, data) ==
  IF fields = <<>> THEN data
  ELSE LET field == Head(fields)
           value == get_resolution_value_next(on_type, field, data)
       IN IF field.name \in DOMAIN data
          THEN evaluate(on_type, Tail(fields), data)
          ELSE CASE value.kind = "Scalar" ->
                      evaluate(on_type, Tail(fields),
                               map_insert(data, field.name, value.v))
                 [] value.kind = "Type" ->
                      evaluate(on_type, Tail(fields),
                               map_insert(data, field.name,
                                 GqlObject(evaluate(value.gql_type, field.fields,
                                                    value.initial))))
                 [] value.kind = "TypeList" ->
                      evaluate(on_type, Tail(fields),
                               map_insert(data, field.name,
                                 GqlList([i \in DOMAIN value.initial |->
                                   GqlObject(evaluate(value.gql_type, field.fields,
                                                      value.initial[i]))])))
                 [] OTHER -> data

\* resolve_loop_next has returned Ok for the operation in hand
LoopReturned == eng_pc = "collect"

\* C21: when no resolver returns an error, the map the explicit-stack engine
\* returns for an operation equals the recursive evaluation of the
\* operation's selection against the root
C21_EngineEqualsRecursiveEvaluation ==
  LoopReturned =>
    eng_res = evaluate("Query", eng_req.ops[eng_op], eng_req.root)

\* resolve has returned, Ok or Err
Returned == eng_pc \in {"done", "failed"}

FailedCalls == {i \in DOMAIN eng_calls : eng_calls[i].failed}

\* C22: once a resolver has returned an error, it is the last resolver
\* invoked, resolve has returned, and the response carries that error in
\* errors and no data; no response has both data and errors
C22_ResolverErrorFailsRequest ==
  /\ FailedCalls # {} =>
       /\ FailedCalls = {Len(eng_calls)}
       /\ Returned
       /\ gql_response.data = <<>>
       /\ gql_response.errors = <<"QueryResult">>
  /\ Returned => (gql_response.data = <<>> \/ gql_response.errors = <<>>)

\* a resolver failed in the second operation, after the first had put its
\* fields in the data
C22_Witness ==
  /\ FailedCalls # {}
  /\ Len(eng_calls) >= 2
  /\ eng_calls[Len(eng_calls)].op = 2
  /\ Returned

\* the object a call resolves a field of is below the object at path p
Below(call, p) ==
  /\ Len(call.at) > Len(p)
  /\ SubSeq(call.at, 1, Len(p)) = p

\* the field of the object at p whose resolver seeded the object of call
via(call, p) == IF call.at[Len(p) + 1] = 0 THEN "one" ELSE "kids"

\* C23: the resolvers of one execution run operation after operation; the
\* resolvers for the fields of one object run in the order of the selection;
\* and a resolver for an object below a field runs after that field's
\* resolver and before the resolver of any later field of the same object
C23_ResolversInDocumentOrder ==
  /\ \A i, j \in DOMAIN eng_calls : i < j =>
       LET c == eng_calls[i]
           d == eng_calls[j]
       IN /\ c.op <= d.op
          /\ (c.op = d.op /\ c.at = d.at) => c.idx < d.idx
  /\ \A j \in DOMAIN eng_calls : \A n \in 0..(Len(eng_calls[j].at) - 1) :
       LET d == eng_calls[j]
           p == SubSeq(d.at, 1, n)
       IN \E k \in 1..(j - 1) :
            /\ eng_calls[k].op = d.op
            /\ eng_calls[k].at = p
            /\ eng_calls[k].name = via(d, p)
            /\ \A m \in (k + 1)..j : eng_calls[m].at # p

\* a nested selection was resolved between the resolvers of two sibling
\* fields, and a list of two objects was resolved
C23_Witness ==
  /\ eng_pc = "done"
  /\ \E i, j, k \in DOMAIN eng_calls :
       /\ i < j /\ j < k
       /\ eng_calls[i].at = <<>> /\ eng_calls[k].at = <<>>
       /\ eng_calls[i].name = "kids"
       /\ Below(eng_calls[j], <<>>)
  /\ \E j \in DOMAIN eng_calls : eng_calls[j].at = <<2>>

\* the kind of an operation; the shorthand { ... } is a query
kind_of(op) == IF op.kind = "SelectionSet" THEN "Query" ELSE op.kind

\* the document has operations of more than one kind
MixedKinds ==
  \E i, j \in DOMAIN prep_req.doc :
    kind_of(prep_req.doc[i]) # kind_of(prep_req.doc[j])

\* resolve has run parse_variables and get_initial_items
Prepared == eng_pc \notin {"idle", "prepare"}

\* C24: a document with operations of more than one kind fails preparation
\* with a Field error, and none of its resolvers is invoked
C24_MixedKindsFailWithField ==
  (MixedKinds /\ Prepared) =>
    /\ eng_pc = "failed"
    /\ eng_err = <<"Field">>
    /\ eng_calls = <<>>

\* the declared type is a built-in scalar, bare or under one NonNull
BuiltinScalar(t) ==
  /\ t.name \in {"String", "Int", "Float", "Boolean"}
  /\ t.wrappers \in {<<>>, <<"NonNullType">>}

\* C25: for a variable declared with a built-in scalar type, with or
\* without NonNull, the shallow check accepts a non-null value exactly when
\* the value is of the kind the type names
C25_ScalarCheckMatchesKind ==
  \A i \in DOMAIN checks :
    (BuiltinScalar(checks[i].var_type) /\ checks[i].var_value.kind # "Null") =>
      (checks[i].ok <=> checks[i].var_value.kind = checks[i].var_type.name)

\* the request's variables are within the envelope: absent or an object
InEnvelope ==
  prep_req.variables = <<>> \/ prep_req.variables[1].kind = "object"

\* the entries of the request's variables
Supplied == IF prep_req.variables = <<>> THEN <<>> ELSE prep_req.variables[1].v
SuppliedNames == {Supplied[i].key : i \in DOMAIN Supplied}

\* the variables the document declares
Declared == var_def_map(get_var_defs(prep_req.doc), <<>>)

\* every supplied variable is declared and passes the shallow check, and
\* every declared variable without a value has a default
Coercible ==
  /\ \A i \in DOMAIN Supplied :
       /\ Supplied[i].key \in DOMAIN Declared
       /\ naive_check_var_type(Declared[Supplied[i].key].var_type,
                               json_to_gql(Supplied[i].value))
  /\ \A k \in DOMAIN Declared \ SuppliedNames : Declared[k].default_value # <<>>

VariableError == eng_pc = "failed" /\ eng_err = <<"Variable">>

SameValue(x, y) == x.kind = y.kind /\ x.v = y.v

C27_ArgumentsAreLiterals ==
  \A i \in DOMAIN eng_calls : \A k \in DOMAIN eng_calls[i].args :
    eng_calls[i].args[k].kind # "Variable"

\* the operations of the document are all of one kind
OneKind == ~MixedKinds

\* no operation carries a directive and every field is a field of the
\* root types
PlainDocument ==
  \A i \in DOMAIN prep_req.doc :
    /\ prep_req.doc[i].directives = <<>>
    /\ \A j \in DOMAIN prep_req.doc[i].selection_set :
         prep_req.doc[i].selection_set[j].name \in RootFields

\* C28: for a document whose operations are all of one kind, preparation
\* yields the selection of every operation, in document order, and the
\* starting type of that kind, and the operations execute in that order
C28_OneSelectionPerOperation ==
  (OneKind /\ PlainDocument /\ Prepared /\ ~VariableError) =>
    /\ eng_pc # "failed"
    /\ Len(queries) = Len(prep_req.doc)
    /\ \A i \in DOMAIN queries : queries[i] = prep_req.doc[i].selection_set
    /\ starting_type = kind_of(prep_req.doc[1])
    /\ \A i \in DOMAIN eng_calls : eng_calls[i].on = starting_type
    /\ \A i, j \in DOMAIN eng_calls : i < j => eng_calls[i].op <= eng_calls[j].op
    /\ eng_pc = "done" => Len(eng_calls) = Len(prep_req.doc)

\* the JSON number is an integer that an i64 holds
RepresentableAsI64 == is_i64(conv_in)

\* C29: the conversion of a JSON number never fails; a JSON integer that an
\* i64 holds becomes an Int of exactly that value, which renders back to
\* the same JSON number
C29_IntegerRoundTrip ==
  /\ conv_pc # "panicked"
  /\ (RepresentableAsI64 /\ conv_pc \in {"gql", "done"}) =>
       /\ conv_gql.kind = "Int"
       /\ from_i64(conv_gql.v).limbs = conv_in.limbs
  /\ (RepresentableAsI64 /\ conv_pc = "done") =>
       /\ conv_out.kind = "number"
       /\ conv_out.v = conv_in

\* the value under a key of a JSON object
json_has(obj, key) ==
  obj.kind = "object" /\ \E i \in DOMAIN obj.v : obj.v[i].key = key
json_get(obj, key) == obj.v[CHOOSE i \in DOMAIN obj.v : obj.v[i].key = key].value
json_is(obj, key, string) ==
  /\ json_has(obj, key)
  /\ json_get(obj, key).kind = "string"
  /\ json_get(obj, key).v = string
json_list(obj, key) ==
  IF json_has(obj, key) /\ json_get(obj, key).kind = "array"
  THEN json_get(obj, key).v ELSE <<>>

\* the JSON description of a type reference gives the type: the named type
\* by its name, a wrapper by its kind and ofType
RECURSIVE DescribesType(_, _)
DescribesType(json, t) ==
  IF t.wrappers = <<>> THEN json_is(json, "name", t.name)
  ELSE /\ json_is(json, "kind",
                  IF Head(t.wrappers) = "ListType" THEN "LIST" ELSE "NON_NULL")
       /\ json_has(json, "ofType")
       /\ DescribesType(json_get(json, "ofType"), inner_type(t))

\* the list describes the fields: as many entries as fields, and for every
\* field an entry with its name and its type
DescribesFields(list, def_fields, key) ==
  /\ Len(list) = Len(def_fields)
  /\ \A i \in DOMAIN def_fields : \E j \in DOMAIN list :
       /\ json_is(list[j], "name", def_fields[i].name)
       /\ json_has(list[j], "type")
       /\ DescribesType(json_get(list[j], "type"), def_fields[i][key])

\* the types the response lists under __schema.types
ListedTypes ==
  IF json_has(Response, "__schema")
  THEN json_list(json_get(Response, "__schema"), "types") ELSE <<>>

Listed(name, kind) ==
  {j \in DOMAIN ListedTypes :
     json_is(ListedTypes[j], "name", name) /\ json_is(ListedTypes[j], "kind", kind)}

\* the response describes the object types, the input object types and the
\* enum types of the schema
DescribesObjects ==
  \A i \in DOMAIN external_types.objects :
    LET def == external_types.objects[i]
    IN \E j \in Listed(def.name, "OBJECT") :
         DescribesFields(json_list(ListedTypes[j], "fields"), def.fields, "field_type")
DescribesInputs ==
  \A i \in DOMAIN external_types.input_types :
    LET def == external_types.input_types[i]
    IN \E j \in Listed(def.name, "INPUT_OBJECT") :
         DescribesFields(json_list(ListedTypes[j], "inputFields"), def.fields,
                         "value_type")
DescribesEnums ==
  \A i \in DOMAIN external_types.enums :
    LET def == external_types.enums[i]
    IN \E j \in Listed(def.name, "ENUM") :
         LET list == json_list(ListedTypes[j], "enumValues")
         IN /\ Len(list) = Len(def.values)
            /\ \A k \in DOMAIN def.values : \E m \in DOMAIN list :
                 json_is(list[m], "name", def.values[k])

\* resolve has come to its end
Ended == eng_pc \in {"done", "failed", "panicked"}

\* C30: the introspection of __schema.types returns a response that
\* describes every object type, input object type and enum type of the
\* schema, with the names and types of their fields and the enum values
C30_IntrospectionDescribesSchema ==
  Ended =>
    /\ eng_pc = "done"
    /\ DescribesObjects
    /\ DescribesInputs
    /\ DescribesEnums

\* the top-level fields of operation k that the injected root seeds and
\* that select children
SeededComposites(k) ==
  {i \in DOMAIN eng_req.ops[k] :
     /\ eng_req.ops[k][i].name \in DOMAIN eng_req.root
     /\ eng_req.ops[k][i].fields # <<>>}

\* the resolver of the field `name` was invoked in operation k for the
\* object at `at`
Invoked(k, at, name) ==
  \E c \in DOMAIN eng_calls :
    eng_calls[c].op = k /\ eng_calls[c].at = at /\ eng_calls[c].name = name

\* C31: when the data of a frame already holds a selected field (seeded by
\* the injected root), the resolver of that field is not invoked, and the
\* resolvers of the children selected under the seeded composite field are
\* invoked for the seeded object
C31_SeededFieldChildrenResolved ==
  eng_pc = "done" =>
    \A k \in DOMAIN eng_req.ops : \A i \in SeededComposites(k) :
      LET field == eng_req.ops[k][i]
          seeded == eng_req.root[field.name]
      IN /\ ~Invoked(k, <<>>, field.name)
         /\ \A j \in DOMAIN field.fields :
              field.fields[j].name \in Resolvers =>
                Invoked(k, path_of(seeded.v), field.fields[j].name)

\* the place in the stack a frame of a list names as its parent's
slot_of(frame) == frame.in_list[1] + 1

\* the frame at place p of the stack is an element of a list, and the frame
\* it names as its parent is below it, is the frame whose TypeList created
\* it (it stopped at the field the element is for, and the element's seed
\* lies one step under the parent's object), and holds a List under the
\* element's key
ListParentHolds(p) ==
  LET frame == eng_stack[p]
      slot == slot_of(frame)
      at == path_of(frame.data)
  IN /\ slot \in 1..(p - 1)
     /\ LET parent == eng_stack[slot]
        IN /\ frame.map_key \in DOMAIN parent.data
           /\ parent.data[frame.map_key].kind = "List"
           /\ parent.field_res_progress \in DOMAIN parent.fields
           /\ parent.fields[parent.field_res_progress].name = frame.map_key
           /\ parent.fields[parent.field_res_progress].fields = frame.fields
           /\ at # <<>>
           /\ SubSeq(at, 1, Len(at) - 1) = path_of(parent.data)

\* the step completes the frame on top of the stack, an element of a list:
\* its object is appended to the list of its parent and nothing else changes
\* in the stack below it
ListElementAppended ==
  LET p == Len(eng_stack)
      out == field_loop(eng_stack[p])
      slot == slot_of(eng_stack[p])
      key == eng_stack[p].map_key
  IN (eng_pc = "loop" /\ eng_stack[p].in_list # <<>> /\ out.kind = "complete") =>
       /\ eng_pc' = "loop"
       /\ eng_stack' =
            [SubSeq(eng_stack, 1, p - 1) EXCEPT ![slot].data[key].v =
               Append(@, GqlObject(out.ctx.data))]

\* C32: every frame that is an element of a list names a frame of the stack
\* that created it and holds a List under its key, the finished object of
\* the element is appended to that List, and the engine never panics
C32_ListParentInvariant ==
  [][/\ \A p \in DOMAIN eng_stack :
          eng_stack[p].in_list # <<>> => ListParentHolds(p)
     /\ eng_stack # <<>> => ListElementAppended
     /\ eng_pc' # "panicked"]_vars

\* an element of a list holds a list of its own to which an element was
\* appended
C32_Witness ==
  \E p \in DOMAIN eng_stack :
    /\ eng_stack[p].in_list # <<>>
    /\ "kids" \in DOMAIN eng_stack[p].data
    /\ eng_stack[p].data["kids"].kind = "List"
    /\ Len(eng_stack[p].data["kids"].v) >= 1

\* a directive is defined in neither catalog, or the value of one of the
\* arguments of its definition fails the type check
Undefined(d) == ~contains_key(DirectiveDefinitions, d.name)
IllTyped(d) ==
  /\ contains_key(DirectiveDefinitions, d.name)
  /\ \E i \in DOMAIN get(DirectiveDefinitions, d.name).arguments :
       LET arg_def == get(DirectiveDefinitions, d.name).arguments[i]
       IN ~naive_check_var_type(arg_def.value_type,
                                argument_value(d.arguments, arg_def.name))

\* a selection set spreads no fragment, at any depth
RECURSIVE NoSpread(_)
NoSpread(set) ==
  \A i \in DOMAIN set : set[i].sel = "Field" /\ NoSpread(set[i].selection_set)

\* a field of the selection set, at any depth, has such a directive
Invalid(d) == Undefined(d) \/ IllTyped(d)
RECURSIVE SomeInvalidDirective(_)
SomeInvalidDirective(set) ==
  \E i \in DOMAIN set :
    \/ \E j \in DOMAIN set[i].directives : Invalid(set[i].directives[j])
    \/ SomeInvalidDirective(set[i].selection_set)

\* the lowering of the request has come to its end
Lowered == eng_pc \notin {"prepare", "lower"}

\* C33: when a field of the operation, at any depth, the top level
\* included, has a directive that neither catalog defines or whose argument
\* fails the type check, the preparation fails with a Directive error
C33_DirectivesValidated ==
  LET set == prep_req.doc[1].selection_set
  IN (Lowered /\ NoSpread(set) /\ SomeInvalidDirective(set)) =>
       (eng_pc = "failed" /\ eng_err = <<"Directive">>)

\* C39: the preparation comes to its end with a prepared tree or with an
\* error, whatever the fragment spreads of the document: the recursion of
\* get_fields and process_field never exhausts the stack
C39_PreparationTerminates == eng_pc # "overflowed"

\* the tracker handled MsgNewSubscription last
RegisteredLast == last.msg.type = "MsgNewSubscription"

\* C34: the handling of MsgNewSubscription always completes, whatever the
\* data store does: the tracker has not panicked and the instance is in the
\* primary map
C34_RegisterAlwaysCompletes ==
  RegisteredLast =>
    /\ ~tracker_panicked
    /\ SubscriptionInstance(last.msg.user_id, last.msg.sub_id) \in DOMAIN subscriptions

\* the tracker handled MsgSubscriptionStop or MsgWsDisconnected last
RemovedLast == last.msg.type \in {"MsgSubscriptionStop", "MsgWsDisconnected"}

\* C35: the handling of MsgSubscriptionStop and of MsgWsDisconnected
\* completes in every reachable state of the registry: the tracker does not
\* panic on an access to a bucket
C35_RemovalNeverFails == RemovedLast => ~tracker_panicked

\* the instance is in the bucket of the channel
InBucket(chs, channel, instance) ==
  channel \in DOMAIN chs /\ \E i \in DOMAIN chs[channel] : chs[channel][i] = instance

\* the step is the tracker's handling of the MsgWsDisconnected at the head
\* of its mailbox
DisconnectHandled ==
  TrackerTakes("MsgWsDisconnected") /\ tracker_mailbox' = Tail(tracker_mailbox)

\* the instance of the user was started on a connection that is still open
\* and still authenticated as that user
OnOpenConnection(instance) ==
  LET c == subscriptions[instance].addr
  IN conn_id[c] = instance.user /\ ~ws_stopped[c] /\ ~ws_closed[c]

\* C36: when a connection of a user closes, the instances that another,
\* still open connection of the same user started stay registered: they
\* remain in the primary map and in the buckets they were in
C36_OtherConnectionKeepsInstances ==
  [][DisconnectHandled =>
       \A instance \in DOMAIN subscriptions :
         (instance.user = Head(tracker_mailbox).id /\ OnOpenConnection(instance)) =>
           /\ ~tracker_panicked'
           /\ instance \in DOMAIN subscriptions'
           /\ \A channel \in DOMAIN channels :
                InBucket(channels, channel, instance) =>
                  InBucket(channels', channel, instance)]_vars

\* the latest frame a connection handled was a stop, on a connection
\* without an identity
StopWithoutIdentity ==
  /\ ws_last.frame = "stop"
  /\ conn_id[ws_last.conn] = None

\* C37: a stop frame on a connection without an identity does not crash the
\* handler of the connection, and no MsgSubscriptionStop goes to the tracker
C37_StopWithoutIdentityIsHarmless ==
  StopWithoutIdentity =>
    /\ ~ws_panicked[ws_last.conn]
    /\ \A i \in DOMAIN tracker_mailbox :
         tracker_mailbox[i].type = "MsgSubscriptionStop" =>
           tracker_mailbox[i].user_id # None

\* C38: handling an event makes the tracker execute subscription documents
\* only: no document it resolved while handling a MsgMessageCreated is the
\* mutation, so that the handling sends no new event to the tracker
ResolvedByDeliver ==
  IF last.msg.type = "MsgMessageCreated"
  THEN {subscriptions[last.sends[i].inst].req : i \in DOMAIN last.sends}
  ELSE {}

C38_DeliverRunsSubscriptionsOnly == "mut" \notin ResolvedByDeliver

\* every field of the selection has an entry in the object
Completed(fields, obj) == \A i \in DOMAIN fields : fields[i].name \in DOMAIN obj

\* the object the engine stored for the frame it popped: the parent's entry
\* under the frame's key, or the last element of the parent's list
StoredFor(frame) ==
  IF frame.in_list = <<>>
  THEN eng_stack'[Len(eng_stack')].data[frame.map_key].v
  ELSE LET l == eng_stack'[slot_of(frame)].data[frame.map_key].v
       IN l[Len(l)].v

\* a step of the loop that leaves one frame less on the stack popped a frame
\* that has an entry for each of its fields
PoppedCompleted ==
  (eng_pc = "loop" /\ eng_pc' = "loop" /\ Len(eng_stack') < Len(eng_stack)) =>
    /\ Len(eng_stack') = Len(eng_stack) - 1
    /\ Completed(eng_stack[Len(eng_stack)].fields, StoredFor(eng_stack[Len(eng_stack)]))

\* the frame of the operation's root: the only one with the empty key
RootFrame(frame) == frame.map_key = "" /\ frame.in_list = <<>>

\* the loop returns a result from the root frame alone, with an entry for
\* each field of the operation, and leaves no frame behind
ReturnedFromRoot ==
  (eng_pc = "loop" /\ eng_pc' = "collect") =>
    /\ Len(eng_stack) = 1
    /\ RootFrame(eng_stack[1])
    /\ eng_stack' = <<>>
    /\ Completed(eng_req.ops[eng_op], eng_res')

\* while the loop runs the root frame is at the bottom of the stack, and no
\* frame is left when it has returned
RootAtBottom ==
  /\ eng_pc = "loop" =>
        /\ eng_stack # <<>>
        /\ \A p \in DOMAIN eng_stack : RootFrame(eng_stack[p]) <=> p = 1
  /\ eng_pc \in {"collect", "resolve", "done", "failed"} => eng_stack = <<>>

\* the response has an entry for every field of every operation
EveryFieldAnswered ==
  \A o \in DOMAIN eng_req.ops : \A i \in DOMAIN eng_req.ops[o] :
    \E j \in DOMAIN eng_data : eng_data[j].key = eng_req.ops[o][i].name

\* the calls of resolve whose end is checked: with lists of no object or of
\* MaxSeeds objects, in the build of serde_json that keeps insertion order
InitEngineLive ==
  /\ InitEngine
  /\ eng_env.nseeds \in {0, MaxSeeds}
  /\ eng_env.preserve_order

\* the engine runs as one call of resolve: a step that can be taken is taken
SpecEngineLive == InitEngineLive /\ [][NextEngine]_vars /\ WF_vars(NextEngine)

\* C40: the engine loop terminates without panicking; every frame popped
\* was completed and no frame is left; the loop returns exactly when the root
\* frame completes on an empty stack; a successful response has an entry for
\* every top-level field
C40_EngineLoopTerminates ==
  /\ <>(eng_pc \in {"done", "failed"})
  /\ [](RootAtBottom /\ (eng_pc = "done" => EveryFieldAnswered))
  /\ [][PoppedCompleted /\ ReturnedFromRoot]_vars

\* a successful run that pushed the frames of a list of MaxSeeds objects, and
\* the frame of an object
C40_Witness ==
  /\ eng_pc = "done"
  /\ eng_env.nseeds = MaxSeeds
  /\ \E k \in DOMAIN eng_calls : eng_calls[k].name = "kids"
  /\ \E k \in DOMAIN eng_calls : eng_calls[k].name = "one"

====
